---- MODULE Spec2Model ----
(***************************************************************************)
(* A model of wlrigctl: the CAT (QSY) handler of cat.rs, the FLRig client  *)
(* of flrig.rs, the mode translation heuristics of cat.rs and the WSJT-X   *)
(* datagram decoder of wsjtx.rs.                                           *)
(*                                                                         *)
(* Frequencies are integers (hertz).  The code carries them as f64, but    *)
(* every frequency a QSY request can carry is a u32 converted to f64,      *)
(* which is exact, and all constants compared against are integers below   *)
(* 2^53, so f64 comparison coincides with integer comparison.              *)
(*                                                                         *)
(* Strings that the code takes apart (request paths) are sequences of      *)
(* one-character strings; strings the code only compares for equality     *)
(* (mode labels) are TLA+ strings.                                         *)
(***************************************************************************)
EXTENDS Integers, Sequences, FiniteSets, TLC

VARIABLES
    rigFreq,      \* the VFO frequency the transceiver daemon holds
    rigMode,      \* the mode label the transceiver daemon reports
    rigBw,        \* the filter bandwidth last set through rig.set_bw (0: never set)
    cwbandwidth,  \* FLRig.cwbandwidth: Option<u32>
    yaesu,        \* CatSettings.yaesu
    pc,           \* per handler: where its qsy()/set_mode() call stands
    qsyinfo,      \* per handler: the parsed Qsy {freq, mode}
    target,       \* per handler: the flrig::Mode handed to set_mode
    existing,     \* per handler: set_mode's local existing_mode_str
    log,          \* per handler: the rig commands its current call has issued
    smres,        \* per handler: the Result of its set_mode call
    resp,         \* per handler: the HTTP response of its qsy call
    accepted,     \* number of requests accepted so far
    arg,          \* input of the pure-function specifications
    ret,          \* result of the pure-function specifications
    req,          \* per handler: the path of the request it is serving
    buf,          \* wsjtx: the datagram handed to decode_hdr
    wpc,          \* wsjtx: where the decode_hdr call stands
    steps,        \* wsjtx: what the decode_hdr call has done so far, in order
    decoded,      \* wsjtx: the WSJTXData the deserializer produced
    uploads,      \* wsjtx: the adif_text of every upload the call attempted
    wres,         \* wsjtx: the Result of the decode_hdr call
    rxhist,       \* wsjtx: the datagrams rxhandler has dealt with, and how
    rxerrs,       \* wsjtx: how many times recv_from has failed
    rigPower,     \* the power level the transceiver daemon reports
    held,         \* the (frequency, mode) pairs the daemon has held while polled
    pollTask,     \* which poll loop runs: wavelog_thread, or the task of main
    ppc,          \* poll loop: where it stands
    attempt,      \* poll loop: which get_radio_data call of the tick is under way
    ticks,        \* poll loop: the number of the tick under way
    fetched,      \* poll loop: the locals of get_radio_data
    calls,        \* poll loop: the requests sent to the daemon in this tick
    radio_data_current,  \* poll loop: the previous snapshot
    pushes,       \* poll loop: the uploads attempted, with tick and outcome
    tickStart,    \* poll loop: the CAT side as it was when the tick began
    method        \* per handler: the HTTP method of the request

\* the state of the WSJT-X side
wsjtxVars == <<buf, wpc, steps, decoded, uploads, wres>>

\* the state of the handlers of the CAT side, and the daemon's settings
handlerVars == <<rigBw, cwbandwidth, yaesu, pc, qsyinfo, target, existing, log,
                 smres, resp, accepted, arg, ret, req, method>>

\* the state of the receive loop around it
rxVars == <<rxhist, rxerrs>>

\* the state of the poll loop
pollVars == <<pollTask, ppc, attempt, ticks, fetched, calls, radio_data_current,
              pushes, tickStart>>

vars == <<rigFreq, rigMode, rigBw, cwbandwidth, yaesu, pc, qsyinfo, target,
          existing, log, smres, resp, accepted, arg, ret, req, method, wsjtxVars,
          rxVars, rigPower, held, pollVars>>

----------------------------------------------------------------------------
(* Bounds of the model *)

\* concurrently served connections (tokio tasks spawned by CAT_thread)
NumHandlers == 2
\* requests accepted in one behaviour
MaxRequests == 2
\* how far (in Hz) beyond each window edge the test frequencies reach
EdgeSlack == 1

Handlers == 1..NumHandlers

----------------------------------------------------------------------------
(* flrig::Mode, its Display and FromStr implementations *)

Modes ==
    { "LSB", "USB", "AM", "AM_N", "CW", "CW_U", "RTTY", "RTTY_U", "FM", "FM_N",
      "CW_R", "CW_L", "RTTY_R", "RTTY_L", "D_LSB", "DATA_L", "D_USB", "DATA_U",
      "DATA_FM", "DATA_FMN", "PSK" }

\* the label taken to be the name of the variant
ModeToString_variant_name(m) == m

ModeToString(m) ==
    CASE m = "LSB"      -> "LSB"
      [] m = "USB"      -> "USB"
      [] m = "AM"       -> "AM"
      [] m = "AM_N"     -> "AM-N"
      [] m = "CW"       -> "CW"
      [] m = "CW_U"     -> "CW-U"
      [] m = "RTTY"     -> "RTTY"
      [] m = "RTTY_U"   -> "RTTY-U"
      [] m = "FM"       -> "FM"
      [] m = "FM_N"     -> "FM-N"
      [] m = "CW_R"     -> "CW-R"
      [] m = "CW_L"     -> "CW-L"
      [] m = "RTTY_R"   -> "RTTY-R"
      [] m = "RTTY_L"   -> "RTTY-L"
      [] m = "D_LSB"    -> "D-LSB"
      [] m = "DATA_L"   -> "DATA-L"
      [] m = "D_USB"    -> "D-USB"
      [] m = "DATA_U"   -> "DATA-U"
      [] m = "DATA_FM"  -> "DATA-FM"
      [] m = "DATA_FMN" -> "DATA-FMN"
      [] m = "PSK"      -> "PSK"

\* Result<Mode, ()>: ok = FALSE is Err(())
ModeFromStr(s) ==
    CASE s = "LSB"      -> [ok |-> TRUE, mode |-> "LSB"]
      [] s = "USB"      -> [ok |-> TRUE, mode |-> "USB"]
      [] s = "AM"       -> [ok |-> TRUE, mode |-> "AM"]
      [] s = "AM-N"     -> [ok |-> TRUE, mode |-> "AM_N"]
      [] s = "CW"       -> [ok |-> TRUE, mode |-> "CW"]
      [] s = "CW-U"     -> [ok |-> TRUE, mode |-> "CW_U"]
      [] s = "RTTY"     -> [ok |-> TRUE, mode |-> "RTTY"]
      [] s = "RTTY-U"   -> [ok |-> TRUE, mode |-> "RTTY_U"]
      [] s = "FM"       -> [ok |-> TRUE, mode |-> "FM"]
      [] s = "FM-N"     -> [ok |-> TRUE, mode |-> "FM_N"]
      [] s = "CW-R"     -> [ok |-> TRUE, mode |-> "CW_R"]
      [] s = "CW-L"     -> [ok |-> TRUE, mode |-> "CW_L"]
      [] s = "RTTY-R"   -> [ok |-> TRUE, mode |-> "RTTY_R"]
      [] s = "RTTY-L"   -> [ok |-> TRUE, mode |-> "RTTY_L"]
      [] s = "D-LSB"    -> [ok |-> TRUE, mode |-> "D_LSB"]
      [] s = "DATA-L"   -> [ok |-> TRUE, mode |-> "DATA_L"]
      [] s = "D-USB"    -> [ok |-> TRUE, mode |-> "D_USB"]
      [] s = "DATA-U"   -> [ok |-> TRUE, mode |-> "DATA_U"]
      [] s = "DATA-FM"  -> [ok |-> TRUE, mode |-> "DATA_FM"]
      [] s = "DATA-FMN" -> [ok |-> TRUE, mode |-> "DATA_FMN"]
      [] s = "PSK"      -> [ok |-> TRUE, mode |-> "PSK"]
      [] OTHER          -> [ok |-> FALSE, mode |-> ""]

\* Labels a transceiver daemon reports that flrig::Mode does not know.
UnknownLabels == { "PKT-U", "cw" }

\* Every label the daemon may report in this model.
RigLabels == { ModeToString(m) : m \in Modes } \cup UnknownLabels

----------------------------------------------------------------------------
(* cat.rs: WavelogMode, is_ft8 and the two translation tables *)

WavelogModes == { "Cw", "Phone", "LSB", "USB", "Digi", "Rtty" }

LO_ALLOWANCE == 2000
HI_ALLOWANCE == 3000

FT8 ==
    << 1840000, 3575000, 7074000, 10136000, 14074000,
       18100000, 21074000, 24915000, 28074000, 50313000 >>

\* is_ft8 with the upper edge of each window taken as inside (<= for <)
RECURSIVE is_ft8_closed_from(_, _)
is_ft8_closed_from(i, freq_hz) ==
    IF i > Len(FT8) THEN FALSE
    ELSE IF freq_hz >= FT8[i] - LO_ALLOWANCE /\ freq_hz <= FT8[i] + HI_ALLOWANCE
         THEN TRUE
         ELSE is_ft8_closed_from(i + 1, freq_hz)

is_ft8_closed_upper(freq_hz) == is_ft8_closed_from(1, freq_hz)

\* the for loop of is_ft8, from table index i on
RECURSIVE is_ft8_from(_, _)
is_ft8_from(i, freq_hz) ==
    IF i > Len(FT8) THEN FALSE
    ELSE IF freq_hz >= FT8[i] - LO_ALLOWANCE /\ freq_hz < FT8[i] + HI_ALLOWANCE
         THEN TRUE
         ELSE is_ft8_from(i + 1, freq_hz)

is_ft8(freq_hz) == is_ft8_from(1, freq_hz)

\* wavelog_to_flrig_mode with 10 MHz itself still counted as a lower band
flrig_mode_phone_lsb_at_10mhz(freq, mode) ==
    IF is_ft8(freq) THEN "D_USB"
    ELSE CASE mode = "Cw"    -> "CW"
           [] mode = "Phone" -> IF freq <= 10000000 THEN "LSB" ELSE "USB"
           [] mode = "LSB"   -> "LSB"
           [] mode = "USB"   -> "USB"
           [] mode = "Digi"  -> "RTTY"
           [] mode = "Rtty"  -> "RTTY"

\* wavelog_to_flrig_mode with the sideband convention applied to an explicit
\* USB request as well
flrig_mode_usb_by_convention(freq, mode) ==
    IF is_ft8(freq) THEN "D_USB"
    ELSE CASE mode = "Cw"    -> "CW"
           [] mode = "Phone" -> IF freq < 10000000 THEN "LSB" ELSE "USB"
           [] mode = "LSB"   -> "LSB"
           [] mode = "USB"   -> IF freq < 10000000 THEN "LSB" ELSE "USB"
           [] mode = "Digi"  -> "RTTY"
           [] mode = "Rtty"  -> "RTTY"

wavelog_to_flrig_mode(freq, mode) ==
    IF is_ft8(freq) THEN "D_USB"
    ELSE CASE mode = "Cw"    -> "CW"
           [] mode = "Phone" -> IF freq < 10000000 THEN "LSB" ELSE "USB"
           [] mode = "LSB"   -> "LSB"
           [] mode = "USB"   -> "USB"
           [] mode = "Digi"  -> "RTTY"
           [] mode = "Rtty"  -> "RTTY"

\* wavelog_to_yaesu_flrig_mode with an explicit sideband request honoured
\* inside an FT8 window
yaesu_mode_sideband_beats_ft8(freq, mode) ==
    IF is_ft8(freq) /\ mode \notin {"LSB", "USB"} THEN "DATA_U"
    ELSE CASE mode = "Cw"    -> "CW_U"
           [] mode = "Phone" -> IF freq < 10000000 THEN "LSB" ELSE "USB"
           [] mode = "LSB"   -> "LSB"
           [] mode = "USB"   -> "USB"
           [] mode = "Digi"  -> "RTTY_U"
           [] mode = "Rtty"  -> "RTTY_U"

\* wavelog_to_yaesu_flrig_mode with the Digi arm left as in the generic table
yaesu_mode_digi_unqualified(freq, mode) ==
    IF is_ft8(freq) THEN "DATA_U"
    ELSE CASE mode = "Cw"    -> "CW_U"
           [] mode = "Phone" -> IF freq < 10000000 THEN "LSB" ELSE "USB"
           [] mode = "LSB"   -> "LSB"
           [] mode = "USB"   -> "USB"
           [] mode = "Digi"  -> "RTTY"
           [] mode = "Rtty"  -> "RTTY_U"

wavelog_to_yaesu_flrig_mode(freq, mode) ==
    IF is_ft8(freq) THEN "DATA_U"
    ELSE CASE mode = "Cw"    -> "CW_U"
           [] mode = "Phone" -> IF freq < 10000000 THEN "LSB" ELSE "USB"
           [] mode = "LSB"   -> "LSB"
           [] mode = "USB"   -> "USB"
           [] mode = "Digi"  -> "RTTY_U"
           [] mode = "Rtty"  -> "RTTY_U"

\* qsy: let mode = match yaesu { true => ..., false => ... }
qsy_translate(y, freq, mode) ==
    IF y THEN wavelog_to_yaesu_flrig_mode(freq, mode)
         ELSE wavelog_to_flrig_mode(freq, mode)

----------------------------------------------------------------------------
(* cat.rs: parse_qsy_path.  A path is a sequence of one-character strings. *)

\* A u32 is the record [hi, lo] standing for hi * 10^8 + lo (lo < 10^8):
\* TLC's integers are 32-bit signed and cannot hold the upper half of u32.
U32Of(n) == [hi |-> n \div 100000000, lo |-> n % 100000000]
U32ToInt(w) == w.hi * 100000000 + w.lo

\* u32::MAX = 4294967295 = 42 * 10^8 + 94967295
U32_MAX_HI == 42
U32_MAX_LO == 94967295

RECURSIVE trim_start_matches(_)
trim_start_matches(s) ==
    IF s # <<>> /\ Head(s) = "/" THEN trim_start_matches(Tail(s)) ELSE s

\* str::split('/'): the segments between slashes, empty ones included
RECURSIVE split_from(_, _)
split_from(s, cur) ==
    IF s = <<>> THEN <<cur>>
    ELSE IF Head(s) = "/" THEN <<cur>> \o split_from(Tail(s), <<>>)
    ELSE split_from(Tail(s), Append(cur, Head(s)))

\* split with a trailing empty segment dropped, as a lenient router would
split_dropping_trailing_empty(s) ==
    LET RECURSIVE from(_, _)
        from(r, cur) ==
            IF r = <<>> THEN <<cur>>
            ELSE IF Head(r) = "/" THEN <<cur>> \o from(Tail(r), <<>>)
            ELSE from(Tail(r), Append(cur, Head(r)))
        parts == from(s, <<>>)
    IN IF Len(parts) > 1 /\ parts[Len(parts)] = <<>>
       THEN SubSeq(parts, 1, Len(parts) - 1)
       ELSE parts

split(s) == split_from(s, <<>>)

DigitVal(c) ==
    CASE c = "0" -> 0 [] c = "1" -> 1 [] c = "2" -> 2 [] c = "3" -> 3
      [] c = "4" -> 4 [] c = "5" -> 5 [] c = "6" -> 6 [] c = "7" -> 7
      [] c = "8" -> 8 [] c = "9" -> 9 [] OTHER -> -1

\* the digit loop of u32::from_str (acc * 10 + digit, checked): InvalidDigit
\* and PosOverflow are both Err
RECURSIVE parse_digits(_, _)
parse_digits(d, acc) ==
    IF d = <<>> THEN [ok |-> TRUE, val |-> acc]
    ELSE LET v  == DigitVal(Head(d))
             lo == acc.lo * 10 + v
             nx == [hi |-> acc.hi * 10 + lo \div 100000000, lo |-> lo % 100000000]
         IN
         IF v < 0 THEN [ok |-> FALSE, val |-> U32Of(0)]
         ELSE IF nx.hi > U32_MAX_HI \/ (nx.hi = U32_MAX_HI /\ nx.lo > U32_MAX_LO)
              THEN [ok |-> FALSE, val |-> U32Of(0)]
         ELSE parse_digits(Tail(d), nx)

\* parse::<u32>() taken to refuse zero, as the 400 message suggests
parse_u32_positive(s) ==
    LET r == IF s = <<>> \/ s = <<"+">> \/ s = <<"-">>
             THEN [ok |-> FALSE, val |-> U32Of(0)]
             ELSE parse_digits(IF Head(s) = "+" THEN Tail(s) ELSE s, U32Of(0))
    IN IF r.ok /\ r.val = U32Of(0) THEN [ok |-> FALSE, val |-> U32Of(0)] ELSE r

\* str::parse::<u32>(): empty, a lone sign, a minus sign, a non-digit and
\* a value above u32::MAX are errors; one leading '+' is accepted
parse_u32(s) ==
    IF s = <<>> \/ s = <<"+">> \/ s = <<"-">> THEN [ok |-> FALSE, val |-> U32Of(0)]
    ELSE parse_digits(IF Head(s) = "+" THEN Tail(s) ELSE s, U32Of(0))

\* WavelogMode::from_str made case-insensitive for cw
WavelogModeFromStr_any_case(s) ==
    CASE s \in { <<"c", "w">>, <<"C", "W">>, <<"C", "w">>, <<"c", "W">> }
                                         -> [ok |-> TRUE, mode |-> "Cw"]
      [] s = <<"p", "h", "o", "n", "e">> -> [ok |-> TRUE, mode |-> "Phone"]
      [] s = <<"l", "s", "b">>           -> [ok |-> TRUE, mode |-> "LSB"]
      [] s = <<"u", "s", "b">>           -> [ok |-> TRUE, mode |-> "USB"]
      [] s = <<"d", "i", "g", "i">>      -> [ok |-> TRUE, mode |-> "Digi"]
      [] s = <<"r", "t", "t", "y">>      -> [ok |-> TRUE, mode |-> "Rtty"]
      [] OTHER                           -> [ok |-> FALSE, mode |-> ""]

WavelogModeFromStr(s) ==
    CASE s = <<"c", "w">>                -> [ok |-> TRUE, mode |-> "Cw"]
      [] s = <<"p", "h", "o", "n", "e">> -> [ok |-> TRUE, mode |-> "Phone"]
      [] s = <<"l", "s", "b">>           -> [ok |-> TRUE, mode |-> "LSB"]
      [] s = <<"u", "s", "b">>           -> [ok |-> TRUE, mode |-> "USB"]
      [] s = <<"d", "i", "g", "i">>      -> [ok |-> TRUE, mode |-> "Digi"]
      [] s = <<"r", "t", "t", "y">>      -> [ok |-> TRUE, mode |-> "Rtty"]
      [] OTHER                           -> [ok |-> FALSE, mode |-> ""]

\* an HTTP response: status, the fixed part of the body, the error text a
\* 500 body appends, and the frequency and mode label a 200 body reports
NoResp == [status |-> 0, msg |-> "", err |-> "", freq |-> 0, mode |-> ""]

\* http_err_str with the status left at 400 Bad Request whatever is asked
http_err_str_bad_request(status, msg, err) ==
    [status |-> 400, msg |-> msg, err |-> err, freq |-> 0, mode |-> ""]

http_err_str(status, msg, err) ==
    [status |-> status, msg |-> msg, err |-> err, freq |-> 0, mode |-> ""]

\* Qsy {freq, mode}: freq is the parsed u32 (the conversion to f64 is exact)
NoQsy == [freq |-> U32Of(0), mode |-> ""]

\* Result<Qsy, HttpResponse>
parse_qsy_path(path) ==
    LET parts == split(trim_start_matches(path)) IN
    IF Len(parts) # 2
    THEN [ok |-> FALSE, qsy |-> NoQsy,
          resp |-> http_err_str(400, "Expected /<freq>/<mode>", "")]
    ELSE LET freq == parse_u32(parts[1]) IN
         IF ~freq.ok
         THEN [ok |-> FALSE, qsy |-> NoQsy,
               resp |-> http_err_str(400, "Frequency must be a positive integer", "")]
         ELSE LET mode == WavelogModeFromStr(parts[2]) IN
              IF ~mode.ok
              THEN [ok |-> FALSE, qsy |-> NoQsy,
                    resp |-> http_err_str(400, "Invalid mode", "")]
              ELSE [ok |-> TRUE, qsy |-> [freq |-> freq.val, mode |-> mode.mode],
                    resp |-> NoResp]

\* the request paths the handlers of Spec are given
QsyPaths ==
    { <<"/", "7", "0", "3", "0", "0", "0", "0", "/", "c", "w">>,
      <<"/", "7", "0", "7", "4", "0", "0", "0", "/", "p", "h", "o", "n", "e">>,
      <<"/", "1", "4", "2", "0", "0", "0", "0", "0", "/", "u", "s", "b">>,
      <<"/", "7", "0", "3", "0", "0", "0", "0">> }

\* parse_qsy_path of each of them, worked out once
ParsedPaths == [path \in QsyPaths |-> parse_qsy_path(path)]

\* the methods requests come with: a bandmap click, a browser's preflight,
\* a form
Methods == { "GET", "OPTIONS", "POST" }

\* a handler that turns away every method but GET
parse_request_get_only(request) ==
    IF request.method = "GET"
    THEN ParsedPaths[request.path]
    ELSE [ok |-> FALSE, qsy |-> NoQsy,
          resp |-> http_err_str(405, "Method not allowed", "")]

\* parse_qsy_path(&req): of the Request it reads req.uri().path() alone
parse_request(request) == ParsedPaths[request.path]

----------------------------------------------------------------------------
(* flrig.rs: FLRig, its errors and the decisions of set_mode *)

\* Result<(), FlrigError>
NoRes == [tag |-> "none", msg |-> ""]
ResOk == [tag |-> "Ok", msg |-> ""]
DxrClientErr == [tag |-> "DxrClient", msg |-> "transport error"]

\* the msg is a plain string literal, not a format string
UnknownModeErr(existing_mode_str) ==
    [tag |-> "UnknownMode", msg |-> "mode {existing_mode_str} is unknown"]

\* impl Display for FlrigError / UnknownModeError
FlrigErrorToString(e) ==
    CASE e.tag = "DxrClient"   -> "DxrClient error: transport error"
      [] e.tag = "UnknownMode" ->
            IF e.msg = "mode {existing_mode_str} is unknown"
            THEN "UnknownMode error: UnknownModeError: mode {existing_mode_str} is unknown"
            ELSE "UnknownMode error: UnknownModeError: other"
      [] OTHER                 -> ""

\* Option<u32>
NoneBw == [some |-> FALSE, val |-> U32Of(0)]
SomeBw(v) == [some |-> TRUE, val |-> v]

\* the configurations of FlrigSettings.cwbandwidth the model starts from
\* (the last one is 4294966796 = 2^32 - 500)
CwBandwidths ==
    { NoneBw, SomeBw(U32Of(500)), SomeBw([hi |-> 42, lo |-> 94966796]) }

\* cwbandwidth as i32: a u32 of 2^31 or more wraps to the value minus 2^32
AsI32(w) ==
    IF w.hi < 21 \/ (w.hi = 21 /\ w.lo < 47483648)
    THEN U32ToInt(w)
    ELSE (w.hi - 42) * 100000000 + (w.lo - 94967296)

\* get_mode answered from the value an earlier call of the task had fetched
cached_mode_reply(h) == existing[h]

\* what FLRig::get_mode returns on success: the daemon's answer to this
\* very rig.get_mode call
get_mode_reply(h) == rigMode

\* set_mode with a mode that does not parse taken as different from the target
set_mode_check_unknown_differs(existing_mode_str, mode) ==
    LET parsed == ModeFromStr(existing_mode_str) IN
    IF parsed.ok /\ mode = parsed.mode THEN "same" ELSE "differs"

\* set_mode writing the mode although the rig reports it
set_mode_check_never_same(existing_mode_str, mode) ==
    IF ModeFromStr(existing_mode_str).ok THEN "differs" ELSE "unknown"

\* set_mode taking whatever the rig reports for the mode asked for
set_mode_check_always_same(existing_mode_str, mode) == "same"

\* set_mode after get_mode: parse the reported mode, compare with the target
set_mode_check(existing_mode_str, mode) ==
    LET parsed == ModeFromStr(existing_mode_str) IN
    IF ~parsed.ok THEN "unknown"
    ELSE IF mode = parsed.mode THEN "same"
    ELSE "differs"

\* the narrow filter tied to the sideband-qualified CW variant instead of CW
needs_narrow_for_cw_u(cwb, mode) == cwb.some /\ mode = "CW_U"

\* if let Some(cwbandwidth) = self.cwbandwidth { if mode == Mode::CW {...} }
needs_narrow(cwb, mode) == cwb.some /\ mode = "CW"

\* qsy going on to the mode although rig.set_vfo failed
after_set_vfo_ignoring_error(ok) == "get_mode"

\* qsy going on to the rig although the path was rejected
after_parse_ignoring_error(ok) == "set_vfo"

\* qsy: the match on parse_qsy_path's result; Err returns the 400 response
after_parse(ok) == IF ok THEN "set_vfo" ELSE "done"

\* qsy: how it goes on after rig.set_vfo returned
after_set_vfo(ok) == IF ok THEN "get_mode" ELSE "done"

\* qsy answering 200 whatever set_mode returned
mode_step_response_always_ok(res, freq, mode) ==
    [status |-> 200, msg |-> "ok", err |-> "", freq |-> freq,
     mode |-> ModeToString(mode)]

\* qsy: the match on set_mode's result, and the JSON body of the success
mode_step_response(res, freq, mode) ==
    IF res.tag = "Ok"
    THEN [status |-> 200, msg |-> "ok", err |-> "", freq |-> freq,
          mode |-> ModeToString(mode)]
    ELSE http_err_str(500, "Failed to set mode", FlrigErrorToString(res))

\* one rig command as a call issued it: the operation, its string or number
\* argument (for rig.get_mode: the string returned), whether it succeeded,
\* and the mode the daemon held when the command reached it
Cmd(op, mode, num, ok) ==
    [op |-> op, mode |-> mode, num |-> num, ok |-> ok, before |-> rigMode]

----------------------------------------------------------------------------
(* wsjtx.rs: decode_hdr.  A datagram is a sequence of bytes (0..255).  The *)
(* deserializer is bincode2 configured big-endian with u32 string lengths: *)
(* a u32 is four bytes, an enum is its variant index as a u32 followed by  *)
(* the variant's fields, a String is a u32 length, that many bytes, and    *)
(* they must be UTF-8; bytes left over after the last field are ignored.   *)

SZ_HDR == 12

\* A u32 read big-endian from four bytes is the record [h, l] of its upper
\* and lower 16 bits: 0xadbccbda does not fit TLC's 32-bit signed integers.
be_u32(b) == [h |-> b[1] * 256 + b[2], l |-> b[3] * 256 + b[4]]

\* 0xadbccbda: 0xadbc = 44476, 0xcbda = 52186
WSJTX_MAGIC == [h |-> 44476, l |-> 52186]

\* the literal 2 of `wsjtx.schema != 2`
SupportedSchema == [h |-> 0, l |-> 2]

\* decode_hdr's length test with the bound taken inclusive
too_short_inclusive(b) == Len(b) <= SZ_HDR

\* buf.len() < SZ_HDR
too_short(b) == Len(b) < SZ_HDR

\* str::from_utf8 as String deserialization applies it: well-formed UTF-8,
\* no overlong forms, no surrogates, nothing above U+10FFFF
RECURSIVE utf8_valid(_)
utf8_valid(b) ==
    IF b = <<>> THEN TRUE
    ELSE LET c == b[1]
             Cont(i, lo, hi) == Len(b) >= i /\ lo <= b[i] /\ b[i] <= hi
             Rest(n) == utf8_valid(SubSeq(b, n + 1, Len(b)))
         IN
         CASE c <= 127 -> Rest(1)
           [] c >= 194 /\ c <= 223 -> Cont(2, 128, 191) /\ Rest(2)
           [] c = 224 -> Cont(2, 160, 191) /\ Cont(3, 128, 191) /\ Rest(3)
           [] (c >= 225 /\ c <= 236) \/ c = 238 \/ c = 239 ->
                  Cont(2, 128, 191) /\ Cont(3, 128, 191) /\ Rest(3)
           [] c = 237 -> Cont(2, 128, 159) /\ Cont(3, 128, 191) /\ Rest(3)
           [] c = 240 -> /\ Cont(2, 144, 191) /\ Cont(3, 128, 191)
                         /\ Cont(4, 128, 191) /\ Rest(4)
           [] c >= 241 /\ c <= 243 -> /\ Cont(2, 128, 191) /\ Cont(3, 128, 191)
                                      /\ Cont(4, 128, 191) /\ Rest(4)
           [] c = 244 -> /\ Cont(2, 128, 143) /\ Cont(3, 128, 191)
                         /\ Cont(4, 128, 191) /\ Rest(4)
           [] OTHER -> FALSE

\* the fields of a struct as the deserializer meets them: a String, or a
\* number of n bytes (u8: 1, u32 and i32: 4, u64 and f64: 8)
Str == [str |-> TRUE, n |-> 0]
Fixed(n) == [str |-> FALSE, n |-> n]

WSJTX_Heartbeat == <<Str, Fixed(4), Str, Fixed(4)>>
WSJTX_Status ==
    <<Str, Fixed(8), Str, Str, Str, Str, Fixed(1), Fixed(1), Fixed(1), Fixed(1),
      Fixed(4), Fixed(4)>>
WSJTX_Decode ==
    <<Str, Fixed(1), Fixed(4), Fixed(4), Fixed(8), Fixed(4), Str, Str, Fixed(1),
      Fixed(1)>>
WSJTX_LoggedADIF == <<Str, Str>>

\* enum WSJTXMsg: the variants in declaration order, index 0 first
WSJTXMsg ==
    << "Heartbeat", "Status", "Decode", "Clear", "Reply", "QSOLogged", "Close",
       "Replay", "HaltTx", "FreeText", "WSPRDecode", "Location", "LoggedADIF",
       "HighlightCallsign", "SwitchConfiguration", "Configure" >>

\* the variant index is recognised with Configure left out
known_variant_without_configure(tag) == tag.h = 0 /\ tag.l < Len(WSJTXMsg) - 1

\* the variant index names one of the variants of WSJTXMsg
known_variant(tag) == tag.h = 0 /\ tag.l < Len(WSJTXMsg)

\* the fields that follow the variant index
variant_fields(name) ==
    CASE name = "Heartbeat"  -> WSJTX_Heartbeat
      [] name = "Status"     -> WSJTX_Status
      [] name = "Decode"     -> WSJTX_Decode
      [] name = "LoggedADIF" -> WSJTX_LoggedADIF
      [] OTHER               -> <<>>

NoFields == [ok |-> FALSE, strs |-> <<>>]

\* the fields of layout read from the bytes b; strs collects the Strings
RECURSIVE read_fields(_, _, _)
read_fields(b, layout, strs) ==
    IF layout = <<>> THEN [ok |-> TRUE, strs |-> strs]
    ELSE IF Head(layout).str
    THEN IF Len(b) < 4 THEN NoFields
         ELSE LET n == be_u32(b) IN
              IF n.h > 0 \/ n.l > Len(b) - 4 THEN NoFields
              ELSE LET text == SubSeq(b, 5, 4 + n.l) IN
                   IF ~utf8_valid(text) THEN NoFields
                   ELSE read_fields(SubSeq(b, 5 + n.l, Len(b)), Tail(layout),
                                    Append(strs, text))
    ELSE IF Len(b) < Head(layout).n THEN NoFields
         ELSE read_fields(SubSeq(b, Head(layout).n + 1, Len(b)), Tail(layout), strs)

\* no WSJTXData has been deserialized
NoData == [ok |-> FALSE, magic |-> [h |-> 0, l |-> 0], schema |-> [h |-> 0, l |-> 0],
           msg |-> "", strs |-> <<>>]

\* deserialize::<WSJTXData>(buf): magic, schema, then the whole msg
deserialize(b) ==
    IF Len(b) < 12 THEN NoData
    ELSE LET tag == be_u32(SubSeq(b, 9, 12)) IN
         IF ~known_variant(tag) THEN NoData
         ELSE LET name == WSJTXMsg[tag.l + 1]
                  f    == read_fields(SubSeq(b, 13, Len(b)), variant_fields(name), <<>>)
              IN
              IF ~f.ok THEN NoData
              ELSE [ok |-> TRUE, magic |-> be_u32(SubSeq(b, 1, 4)),
                    schema |-> be_u32(SubSeq(b, 5, 8)), msg |-> name, strs |-> f.strs]

\* WSJTX_LoggedADIF.adif_text taken to be the first String of the message
adif_text_first_field(d) == d.strs[1]

\* msg.adif_text: WSJTX_LoggedADIF {id, adif_text}
adif_text(d) == d.strs[2]

\* wavelog.rs, upload_wsjtx_qso_data: the JSON body posted to qso_url
upload_wsjtx_qso_data(text) == [type |-> "adif", string |-> text]

----------------------------------------------------------------------------
(* wsjtx.rs: the state of a receiver that has not been handed a datagram   *)

\* decode_hdr has not returned
NoWres == "none"

WsjtxIdle ==
    /\ buf = <<>>
    /\ wpc = "idle"
    /\ steps = <<>>
    /\ decoded = NoData
    /\ uploads = <<>>
    /\ wres = NoWres
    /\ rxhist = <<>>
    /\ rxerrs = 0

----------------------------------------------------------------------------
(* wavelog.rs, flrig.rs: the snapshot of the rig and the poll loop's state  *)

\* the reply of rig.get_maxpwr: the top of the daemon's power scale
RigMaxPwr == 100

\* FLRig.maxpower, from the settings: the watts at the top of the scale
MaxWatts == 100

\* the power levels the daemon may report; a negative one is a daemon's fault
RigPowers == { -1, 0, 50 }

\* rig.get_vfo answers with the frequency as a string: the text of the number
\* f is the one-element sequence <<f>>, the empty string the empty sequence
FreqText(f) == <<f>>

\* get_radio_data: a negative reply counts as 0 before the cast to u32
clamp(val) == IF val < 0 THEN 0 ELSE val

\* rig_power_watts: power * max_watts / max_power, as text; the levels above
\* divide exactly, so the f32 quotient prints as the integer quotient
rig_power_watts(power, max_power, max_watts) ==
    <<(power * max_watts) \div max_power>>

\* a RadioData whose mode is left empty as well
RadioData_without_mode(vfo, mode, power, maxpwr) ==
    [ key |-> "", radio |-> "", frequency |-> vfo, mode |-> "",
      power |-> rig_power_watts(power, maxpwr, MaxWatts) ]

\* the RadioData get_radio_data returns: key and radio are left empty
RadioData(vfo, mode, power, maxpwr) ==
    [ key |-> "", radio |-> "", frequency |-> vfo, mode |-> mode,
      power |-> rig_power_watts(power, maxpwr, MaxWatts) ]

\* radio_data_current before the first tick: "" , "" and "0"
InitialRadioData ==
    [ key |-> "key", radio |-> "identifier", frequency |-> <<>>, mode |-> "",
      power |-> <<0>> ]

\* a comparison that looks at the frequency alone
changed_frequency_only(cur, new) == cur.frequency # new.frequency

\* the condition of the if: any of the three strings differs
changed(cur, new) ==
    \/ cur.frequency # new.frequency
    \/ cur.mode # new.mode
    \/ cur.power # new.power

\* a loop that leaves the previous snapshot as it was
snapshot_kept(cur, new) == cur

\* the three assignments that precede the upload
snapshot_copied(cur, new) ==
    [ cur EXCEPT !.frequency = new.frequency, !.mode = new.mode,
                 !.power = new.power ]

\* the locals of a get_radio_data call that has not started
NoFetch == [ vfo |-> <<>>, mode |-> "", maxpwr |-> 0, res |-> "none",
             data |-> RadioData(<<>>, "", 0, RigMaxPwr) ]

\* the CAT side before any tick
NoTick == [accepted |-> 0, quiet |-> FALSE]

\* the CAT side as a tick finds it: the requests accepted so far, and
\* whether no handler is at work on one
tick_start ==
    [ accepted |-> accepted,
      quiet |-> \A h \in Handlers : pc[h] \in {"idle", "done"} ]

\* no poll loop runs
PollIdle ==
    /\ pollTask = "none"
    /\ ppc = "off"
    /\ attempt = 0
    /\ ticks = 0
    /\ fetched = NoFetch
    /\ calls = <<>>
    /\ radio_data_current = InitialRadioData
    /\ pushes = <<>>
    /\ tickStart = NoTick
    /\ held = {}

\* the pairs the daemon has held, once it holds frequency f and mode m; the
\* record is kept from the moment a poll loop asks for it
held_with(f, m) == IF held = {} THEN held ELSE held \cup { <<FreqText(f), m>> }

----------------------------------------------------------------------------
(* The transceiver daemon and the handlers: initial state *)

NoArg == [fn |-> "none", freq |-> 0, mode |-> ""]
NoRet == [fn |-> "none", ft8 |-> FALSE, generic |-> "", yaesu |-> "",
          byflag |-> [y \in BOOLEAN |-> ""]]

\* the mode labels the daemon may report when the gateway starts
InitRigModes == { "USB", "CW", "PKT-U" }

InitCommon ==
    /\ rigFreq = 14250000
    /\ rigBw = 0
    /\ cwbandwidth \in CwBandwidths
    /\ pc = [h \in Handlers |-> "idle"]
    /\ qsyinfo = [h \in Handlers |-> NoQsy]
    /\ target = [h \in Handlers |-> ""]
    /\ existing = [h \in Handlers |-> ""]
    /\ log = [h \in Handlers |-> <<>>]
    /\ smres = [h \in Handlers |-> NoRes]
    /\ resp = [h \in Handlers |-> NoResp]
    /\ accepted = 0
    /\ req = [h \in Handlers |-> <<>>]
    /\ method = [h \in Handlers |-> ""]
    /\ WsjtxIdle
    /\ rigPower = 0
    /\ PollIdle

\* the cwbandwidth settings the gateway of Spec is started with: none, 500 Hz
QsyCwBandwidths == { NoneBw, SomeBw(U32Of(500)) }

Init ==
    /\ InitCommon
    /\ cwbandwidth \in QsyCwBandwidths
    /\ rigMode \in InitRigModes
    /\ yaesu \in BOOLEAN
    /\ arg = NoArg
    /\ ret = NoRet

----------------------------------------------------------------------------
(* cat.rs: qsy, one action per await point *)

\* A request arrives on connection h: parse the path, translate the mode.
\* A path that does not parse is answered 400 at once.
QsyAcceptWith(h, methods) ==
    /\ pc[h] \in {"idle", "done"}
    /\ accepted < MaxRequests
    /\ \E path \in QsyPaths, m \in methods :
         LET r == parse_request([method |-> m, path |-> path]) IN
         /\ accepted' = accepted + 1
         /\ req' = [req EXCEPT ![h] = path]
         /\ method' = [method EXCEPT ![h] = m]
         /\ log' = [log EXCEPT ![h] = <<>>]
         /\ smres' = [smres EXCEPT ![h] = NoRes]
         /\ IF r.ok
            THEN /\ qsyinfo' = [qsyinfo EXCEPT ![h] = r.qsy]
                 /\ target' = [target EXCEPT ![h] =
                        qsy_translate(yaesu, U32ToInt(r.qsy.freq), r.qsy.mode)]
                 /\ resp' = [resp EXCEPT ![h] = NoResp]
            ELSE /\ qsyinfo' = [qsyinfo EXCEPT ![h] = NoQsy]
                 /\ target' = [target EXCEPT ![h] = ""]
                 /\ resp' = [resp EXCEPT ![h] = r.resp]
         /\ pc' = [pc EXCEPT ![h] = after_parse(r.ok)]
    /\ UNCHANGED <<rigFreq, rigMode, rigBw, cwbandwidth, yaesu, existing, arg, ret, wsjtxVars,
                   rxVars, rigPower, held, pollVars>>

\* the requests Wavelog sends are GETs
QsyAccept(h) == QsyAcceptWith(h, {"GET"})

\* rig.set_vfo(freq).await: the call succeeds and the daemon takes the
\* frequency, or it fails and qsy answers 500
QsySetVfo(h) ==
    /\ pc[h] = "set_vfo"
    /\ \E ok \in BOOLEAN :
         LET freq == U32ToInt(qsyinfo[h].freq) IN
         /\ log' = [log EXCEPT ![h] = Append(@, Cmd("rig.set_vfo", "", freq, ok))]
         /\ rigFreq' = IF ok THEN freq ELSE rigFreq
         /\ held' = held_with(rigFreq', rigMode)
         /\ pc' = [pc EXCEPT ![h] = after_set_vfo(ok)]
         /\ resp' = [resp EXCEPT ![h] =
                IF after_set_vfo(ok) = "done"
                THEN http_err_str(500, "Failed to set frequency", "transport error")
                ELSE @]
    /\ UNCHANGED <<rigMode, rigBw, cwbandwidth, yaesu, qsyinfo, target, existing,
                   smres, accepted, arg, ret, req, method, wsjtxVars,
                   rxVars, rigPower, pollVars>>

\* set_mode returned to qsy: 500 on Err, the 200 JSON body on Ok
QsyModeReturn(h) ==
    /\ pc[h] = "sm_ret"
    /\ resp' = [resp EXCEPT ![h] =
           mode_step_response(smres[h], U32ToInt(qsyinfo[h].freq), target[h])]
    /\ pc' = [pc EXCEPT ![h] = "done"]
    /\ UNCHANGED <<rigFreq, rigMode, rigBw, cwbandwidth, yaesu, qsyinfo, target,
                   existing, log, smres, accepted, arg, ret, req, method, wsjtxVars,
                   rxVars, rigPower, held, pollVars>>

----------------------------------------------------------------------------
(* flrig.rs: FLRig::set_mode, one action per await point *)

\* self.get_mode().await?, then the parse of the reported mode and the
\* comparison with the requested one
SetModeGet(h) ==
    /\ pc[h] = "get_mode"
    /\ \E ok \in BOOLEAN :
         LET reply == IF ok THEN get_mode_reply(h) ELSE ""
             check == set_mode_check(reply, target[h])
         IN
         /\ log' = [log EXCEPT ![h] = Append(@, Cmd("rig.get_mode", reply, 0, ok))]
         /\ existing' = [existing EXCEPT ![h] = IF ok THEN reply ELSE @]
         /\ IF ~ok
            THEN /\ smres' = [smres EXCEPT ![h] = DxrClientErr]
                 /\ pc' = [pc EXCEPT ![h] = "sm_ret"]
            ELSE CASE check = "unknown" ->
                        /\ smres' = [smres EXCEPT ![h] = UnknownModeErr(reply)]
                        /\ pc' = [pc EXCEPT ![h] = "sm_ret"]
                   [] check = "same" ->
                        /\ smres' = [smres EXCEPT ![h] = ResOk]
                        /\ pc' = [pc EXCEPT ![h] = "sm_ret"]
                   [] check = "differs" ->
                        /\ smres' = smres
                        /\ pc' = [pc EXCEPT ![h] = "set_mode"]
    /\ UNCHANGED <<rigFreq, rigMode, rigBw, cwbandwidth, yaesu, qsyinfo, target,
                   resp, accepted, arg, ret, req, method, wsjtxVars,
                   rxVars, rigPower, held, pollVars>>

\* self.client.call("rig.set_mode", mode.to_string()).await?
SetModeWrite(h) ==
    /\ pc[h] = "set_mode"
    /\ \E ok \in BOOLEAN :
         LET label == ModeToString(target[h]) IN
         /\ log' = [log EXCEPT ![h] = Append(@, Cmd("rig.set_mode", label, 0, ok))]
         /\ rigMode' = IF ok THEN label ELSE rigMode
         /\ held' = held_with(rigFreq, rigMode')
         /\ IF ~ok
            THEN /\ smres' = [smres EXCEPT ![h] = DxrClientErr]
                 /\ pc' = [pc EXCEPT ![h] = "sm_ret"]
            ELSE IF needs_narrow(cwbandwidth, target[h])
                 THEN /\ smres' = smres
                      /\ pc' = [pc EXCEPT ![h] = "set_bw"]
                 ELSE /\ smres' = [smres EXCEPT ![h] = ResOk]
                      /\ pc' = [pc EXCEPT ![h] = "sm_ret"]
    /\ UNCHANGED <<rigFreq, rigBw, cwbandwidth, yaesu, qsyinfo, target, existing,
                   resp, accepted, arg, ret, req, method, wsjtxVars,
                   rxVars, rigPower, pollVars>>

\* self.set_narrow(cwbandwidth as i32).await?
SetModeNarrow(h) ==
    /\ pc[h] = "set_bw"
    /\ \E ok \in BOOLEAN :
         LET bw == AsI32(cwbandwidth.val) IN
         /\ log' = [log EXCEPT ![h] = Append(@, Cmd("rig.set_bw", "", bw, ok))]
         /\ rigBw' = IF ok THEN bw ELSE rigBw
         /\ smres' = [smres EXCEPT ![h] = IF ok THEN ResOk ELSE DxrClientErr]
         /\ pc' = [pc EXCEPT ![h] = "sm_ret"]
    /\ UNCHANGED <<rigFreq, rigMode, cwbandwidth, yaesu, qsyinfo, target, existing,
                   resp, accepted, arg, ret, req, method, wsjtxVars,
                   rxVars, rigPower, held, pollVars>>

----------------------------------------------------------------------------
(* The gateway's CAT side: CAT_thread spawns one task per connection, and  *)
(* the tasks run qsy concurrently against the one daemon.                  *)

Next ==
    \E h \in Handlers :
        \/ QsyAccept(h)
        \/ QsySetVfo(h)
        \/ SetModeGet(h)
        \/ SetModeWrite(h)
        \/ SetModeNarrow(h)
        \/ QsyModeReturn(h)

Spec == Init /\ [][Next]_vars

----------------------------------------------------------------------------
(* The same, with the requests coming one after the other: a request is    *)
(* accepted when the one before it has been answered.                      *)

\* connection h is served once the connections before it have been
QsyAcceptInTurn(h) ==
    /\ pc[h] = "idle"
    /\ \A g \in Handlers : g < h => pc[g] = "done"
    /\ \A g \in Handlers : g > h => pc[g] = "idle"
    /\ QsyAccept(h)

NextInTurn ==
    \E h \in Handlers :
        \/ QsyAcceptInTurn(h)
        \/ QsySetVfo(h)
        \/ SetModeGet(h)
        \/ SetModeWrite(h)
        \/ SetModeNarrow(h)
        \/ QsyModeReturn(h)

SpecInTurn == Init /\ [][NextInTurn]_vars

----------------------------------------------------------------------------
(* One connection, its requests coming with any method *)

\* one client is connected, and its requests are served by one task
QsyTask == CHOOSE h \in Handlers : \A g \in Handlers : h <= g

NextMethod ==
    \/ QsyAcceptWith(QsyTask, Methods)
    \/ QsySetVfo(QsyTask)
    \/ SetModeGet(QsyTask)
    \/ SetModeWrite(QsyTask)
    \/ SetModeNarrow(QsyTask)
    \/ QsyModeReturn(QsyTask)

SpecMethod == Init /\ [][NextMethod]_vars

----------------------------------------------------------------------------
(* FLRig::set_mode on its own: a caller hands it any flrig::Mode, whatever *)
(* the daemon reports, and the operator may turn the rig's mode switch at  *)
(* any moment, also while a call is under way.                             *)

InitSetMode ==
    /\ InitCommon
    /\ rigMode \in RigLabels
    /\ yaesu = FALSE
    /\ arg = NoArg
    /\ ret = NoRet

\* rig.set_mode(mode) is entered
CallSetMode(h) ==
    /\ pc[h] \in {"idle", "sm_ret"}
    /\ \E mode \in Modes : target' = [target EXCEPT ![h] = mode]
    /\ log' = [log EXCEPT ![h] = <<>>]
    /\ smres' = [smres EXCEPT ![h] = NoRes]
    /\ pc' = [pc EXCEPT ![h] = "get_mode"]
    /\ UNCHANGED <<rigFreq, rigMode, rigBw, cwbandwidth, yaesu, qsyinfo, existing,
                   resp, accepted, arg, ret, req, method, wsjtxVars,
                   rxVars, rigPower, held, pollVars>>

\* the positions of the transceiver's mode switch the operator turns it to
PanelLabels == { "CW", "USB", "PKT-U" }

\* the mode is changed at the transceiver's front panel
PanelSetMode ==
    /\ \E label \in PanelLabels \ {rigMode} : rigMode' = label
    /\ UNCHANGED <<rigFreq, rigBw, cwbandwidth, yaesu, pc, qsyinfo, target,
                   existing, log, smres, resp, accepted, arg, ret, req, method, wsjtxVars,
                   rxVars, rigPower, held, pollVars>>

NextSetMode ==
    \/ CallSetMode(1)
    \/ SetModeGet(1)
    \/ SetModeWrite(1)
    \/ SetModeNarrow(1)
    \/ PanelSetMode

SpecSetMode == InitSetMode /\ [][NextSetMode]_vars

----------------------------------------------------------------------------
(* is_ft8 and the translation tables on their own: every test frequency    *)
(* with every WavelogMode.                                                 *)

\* the ten FT8 centres of activity (cat.rs, the comment above is_ft8)
BandCentres ==
    { 1840000, 3575000, 7074000, 10136000, 14074000,
      18100000, 21074000, 24915000, 28074000, 50313000 }

\* both edges of every window with EdgeSlack Hz on either side, the centres
\* themselves, the 10 MHz sideband boundary and the 40 m frequencies of the
\* unit tests
TestFreqs ==
    UNION { { c - 2000 - k, c - 2000 + k, c, c + 3000 - k, c + 3000 + k } :
            c \in BandCentres, k \in 0..EdgeSlack }
    \cup { 0, 7000000, 7030000, 7100000, 7185000, 7200000,
           9999999, 10000000, 10000001, 14200000, 2147483647 }

InitTranslate ==
    /\ InitCommon
    /\ cwbandwidth = NoneBw
    /\ rigMode = "USB"
    /\ yaesu = FALSE
    /\ arg \in { [fn |-> "translate", freq |-> f, mode |-> m] :
                 f \in TestFreqs, m \in WavelogModes }
    /\ ret = NoRet

ApplyTranslate ==
    /\ arg.fn = "translate"
    /\ ret = NoRet
    /\ ret' = [fn      |-> "translate",
               ft8     |-> is_ft8(arg.freq),
               generic |-> wavelog_to_flrig_mode(arg.freq, arg.mode),
               yaesu   |-> wavelog_to_yaesu_flrig_mode(arg.freq, arg.mode),
               byflag  |-> [y \in BOOLEAN |-> qsy_translate(y, arg.freq, arg.mode)]]
    /\ UNCHANGED <<rigFreq, rigMode, rigBw, cwbandwidth, yaesu, pc, qsyinfo, target,
                   existing, log, smres, resp, accepted, arg,
                   req, method, wsjtxVars,
                   rxVars, rigPower, held, pollVars>>

NextTranslate == ApplyTranslate

SpecTranslate == InitTranslate /\ [][NextTranslate]_vars

----------------------------------------------------------------------------
(* flrig::Mode's Display and FromStr on their own: every pair of modes,    *)
(* and every string of a list that holds the 21 labels and others.         *)

\* the names of the variants where they differ from the labels, labels in
\* another case or with blanks, the empty string, labels of other daemons
OtherStrings ==
    { "AM_N", "CW_U", "D_USB", "DATA_FMN", "cw", "Usb", "CW ", " LSB", "",
      "PKT-U", "DATA", "CW-", "USB-D", "FM-W", "DATA-FM-N" }

LabelStrings == { ModeToString(m) : m \in Modes } \cup OtherStrings

InitLabel ==
    /\ InitCommon
    /\ cwbandwidth = NoneBw
    /\ rigMode = "USB"
    /\ yaesu = FALSE
    /\ arg \in { [fn |-> "label", mode |-> m, other |-> o, str |-> x] :
                 m \in Modes, o \in Modes, x \in LabelStrings }
    /\ ret = NoRet

\* mode.to_string() of the two modes, and the parse of what was written
ApplyToString ==
    /\ arg.fn = "label"
    /\ ret = NoRet
    /\ ret' = [fn    |-> "to_string",
               label |-> ModeToString(arg.mode),
               other |-> ModeToString(arg.other),
               back  |-> ModeFromStr(ModeToString(arg.mode))]
    /\ UNCHANGED <<rigFreq, rigMode, rigBw, cwbandwidth, yaesu, pc, qsyinfo, target,
                   existing, log, smres, resp, accepted, arg, req, method,
                   wsjtxVars, rxVars, rigPower, held, pollVars>>

\* s.parse::<Mode>() of the string
ApplyFromStr ==
    /\ arg.fn = "label"
    /\ ret = NoRet
    /\ ret' = [fn |-> "from_str", parsed |-> ModeFromStr(arg.str)]
    /\ UNCHANGED <<rigFreq, rigMode, rigBw, cwbandwidth, yaesu, pc, qsyinfo, target,
                   existing, log, smres, resp, accepted, arg, req, method,
                   wsjtxVars, rxVars, rigPower, held, pollVars>>

NextLabel ==
    \/ ApplyToString
    \/ ApplyFromStr

SpecLabel == InitLabel /\ [][NextLabel]_vars

----------------------------------------------------------------------------
(* parse_qsy_path on its own: paths put together from frequency segments,  *)
(* mode segments, leading slashes, a trailing slash and a third segment.   *)

\* the most slashes a test path starts with
MaxLeadingSlashes == 2

FreqSegs ==
    { <<"1", "4", "0", "3", "0", "0", "0", "0">>,
      <<"7", "0", "7", "4", "0", "0", "0">>, <<"0">>, <<"0", "0", "7">>,
      <<"+", "7">>, <<"-", "7">>, <<"-", "0">>, <<>>, <<"+">>,
      <<"a", "b", "c">>, <<"1", "2", "a">>, <<"1", ".", "5">>,
      <<"4", "2", "9", "4", "9", "6", "7", "2", "9", "5">>,
      <<"4", "2", "9", "4", "9", "6", "7", "2", "9", "6">>,
      <<"9", "9", "9", "9", "9", "9", "9", "9", "9", "9", "9">> }

ModeSegs ==
    { <<"c", "w">>, <<"p", "h", "o", "n", "e">>, <<"l", "s", "b">>,
      <<"u", "s", "b">>, <<"d", "i", "g", "i">>, <<"r", "t", "t", "y">>,
      <<"C", "W">>, <<"U", "s", "b">>, <<"s", "s", "b">>, <<>> }

Slashes(k) == [i \in 1..k |-> "/"]

ParsePaths ==
    UNION { { Slashes(k) \o f,
              Slashes(k) \o f \o <<"/">> \o m,
              Slashes(k) \o f \o <<"/">> \o m \o <<"/">>,
              Slashes(k) \o f \o <<"/">> \o m \o <<"/", "x">> } :
            k \in 0..MaxLeadingSlashes, f \in FreqSegs, m \in ModeSegs }

InitParse ==
    /\ InitCommon
    /\ cwbandwidth = NoneBw
    /\ rigMode = "USB"
    /\ yaesu = FALSE
    /\ arg \in { [fn |-> "parse", path |-> p] : p \in ParsePaths }
    /\ ret = NoRet

ApplyParse ==
    /\ arg.fn = "parse"
    /\ ret = NoRet
    /\ ret' = [fn |-> "parse", res |-> parse_qsy_path(arg.path)]
    /\ UNCHANGED <<rigFreq, rigMode, rigBw, cwbandwidth, yaesu, pc, qsyinfo, target,
                   existing, log, smres, resp, accepted, arg, req, method, wsjtxVars,
                   rxVars, rigPower, held, pollVars>>

NextParse == ApplyParse

SpecParse == InitParse /\ [][NextParse]_vars

----------------------------------------------------------------------------
(* decode_hdr on its own: datagrams as a WSJT-X instance encodes them,     *)
(* with good and bad magic, schema and variant index, cut short at every   *)
(* length, and with bytes appended.                                        *)

\* the most bytes appended to a complete datagram
MaxTrailing == 1

\* a u32 below 65536, big-endian
BE32(n) == <<0, 0, n \div 256, n % 256>>

EncStr(text) == BE32(Len(text)) \o text

\* n bytes of a number
Num(n) == [i \in 1..n |-> 1]

\* 0xad 0xbc 0xcb 0xda
MagicBytes == <<173, 188, 203, 218>>

\* one bit off in the last byte; the right bytes in little-endian order
BadMagicBytes == { <<173, 188, 203, 219>>, <<218, 203, 188, 173>> }

\* schema 2
SchemaBytes == <<0, 0, 0, 2>>

\* schema 3; 2 in little-endian order
BadSchemaBytes == { <<0, 0, 0, 3>>, <<2, 0, 0, 0>> }

\* "", "W", "é"
TestStrings == { <<>>, <<87>>, <<195, 169>> }

\* "", "<EOR>", "é\n", and text that looks like a length prefix
TestBlobs == { <<>>, <<60, 69, 79, 82, 62>>, <<195, 169, 10>>, <<0, 0, 0, 1>> }

\* byte strings that are not UTF-8: a stray 0xff, a cut-off two-byte form
NotUtf8 == { <<255>>, <<65, 195>> }

\* the payloads of variant index t that follow the struct of that variant
WellFormedPayloads(t) ==
    CASE t = 0  -> { EncStr(id) \o Num(4) \o EncStr(v) \o Num(4) :
                     id \in TestStrings, v \in TestStrings }
      [] t = 1  -> { EncStr(x) \o Num(8) \o EncStr(x) \o EncStr(x) \o EncStr(x)
                       \o EncStr(x) \o Num(1) \o Num(1) \o Num(1) \o Num(1)
                       \o Num(4) \o Num(4) : x \in TestStrings }
      [] t = 2  -> { EncStr(x) \o Num(1) \o Num(4) \o Num(4) \o Num(8) \o Num(4)
                       \o EncStr(x) \o EncStr(x) \o Num(1) \o Num(1) :
                     x \in TestStrings }
      [] t = 12 -> { EncStr(id) \o EncStr(blob) :
                     id \in TestStrings, blob \in TestBlobs }
      [] OTHER  -> { <<>> }

\* logged-adif payloads whose contact text (or id) is not UTF-8
MalformedPayloads ==
    { EncStr(<<87>>) \o EncStr(x) : x \in NotUtf8 }
    \cup { EncStr(x) \o EncStr(<<87>>) : x \in NotUtf8 }

\* variant index and payload of the messages sent
Bodies ==
    UNION { { BE32(t) \o pl : pl \in WellFormedPayloads(t) } : t \in 0..15 }
    \cup { BE32(12) \o pl : pl \in MalformedPayloads }
    \cup { BE32(16), <<0, 1, 0, 12>>, <<12, 0, 0, 0>> }

Complete ==
    { m \o sc \o body : m \in {MagicBytes} \cup BadMagicBytes,
                        sc \in {SchemaBytes} \cup BadSchemaBytes,
                        body \in Bodies }

\* every datagram whole, cut short at every length, and with bytes appended
TestDatagrams ==
    UNION { { SubSeq(d, 1, n) : n \in 0..Len(d) }
            \cup { d \o [i \in 1..k |-> 0] : k \in 1..MaxTrailing } : d \in Complete }

InitDecode ==
    /\ InitCommon
    /\ cwbandwidth = NoneBw
    /\ rigMode = "USB"
    /\ yaesu = FALSE
    /\ arg = NoArg
    /\ ret = NoRet

\* rxhandler is handed the bytes of a datagram and calls decode_hdr
RxHandler ==
    /\ wpc = "idle"
    /\ \E d \in TestDatagrams : buf' = d
    /\ wpc' = "decode_hdr"
    /\ UNCHANGED <<rigFreq, rigMode, rigBw, cwbandwidth, yaesu, pc, qsyinfo, target,
                   existing, log, smres, resp, accepted, arg, ret, req, method,
                   steps, decoded, uploads, wres,
                   rxVars, rigPower, held, pollVars>>

\* decode_hdr up to its return or to the await of the upload
DecodeHdr ==
    /\ wpc = "decode_hdr"
    /\ IF too_short(buf)
       THEN /\ steps' = <<"length">>
            /\ decoded' = NoData
            /\ wres' = "DatagramTooShort"
            /\ wpc' = "ret"
       ELSE LET wsjtx == deserialize(buf) IN
            /\ decoded' = wsjtx
            /\ IF ~wsjtx.ok
               THEN /\ steps' = <<"length", "deserialize">>
                    /\ wres' = "DeserializationFailure"
                    /\ wpc' = "ret"
               ELSE IF wsjtx.magic # WSJTX_MAGIC
               THEN /\ steps' = <<"length", "deserialize", "magic">>
                    /\ wres' = "BadMajick"
                    /\ wpc' = "ret"
               ELSE IF wsjtx.schema # SupportedSchema
               THEN /\ steps' = <<"length", "deserialize", "magic", "schema">>
                    /\ wres' = "UnsupportedSchema"
                    /\ wpc' = "ret"
               ELSE IF wsjtx.msg = "LoggedADIF"
               THEN /\ steps' = <<"length", "deserialize", "magic", "schema">>
                    /\ wres' = wres
                    /\ wpc' = "upload"
               ELSE /\ steps' = <<"length", "deserialize", "magic", "schema", "println">>
                    /\ wres' = "Ok"
                    /\ wpc' = "ret"
    /\ UNCHANGED <<rigFreq, rigMode, rigBw, cwbandwidth, yaesu, pc, qsyinfo, target,
                   existing, log, smres, resp, accepted, arg, ret, req, method,
                   buf, uploads,
                   rxVars, rigPower, held, pollVars>>

\* upload_wsjtx_qso_data(wavelog_settings, msg.adif_text).await: the POST
\* goes through or it does not
UploadQso ==
    /\ wpc = "upload"
    /\ \E ok \in BOOLEAN :
         /\ uploads' = Append(uploads, upload_wsjtx_qso_data(adif_text(decoded)))
         /\ steps' = Append(steps, "upload")
         /\ wres' = IF ok THEN "Ok" ELSE "QSOUploadFailed"
         /\ wpc' = "ret"
    /\ UNCHANGED <<rigFreq, rigMode, rigBw, cwbandwidth, yaesu, pc, qsyinfo, target,
                   existing, log, smres, resp, accepted, arg, ret, req, method,
                   buf, decoded,
                   rxVars, rigPower, held, pollVars>>

NextDecode ==
    \/ RxHandler
    \/ DecodeHdr
    \/ UploadQso

SpecDecode == InitDecode /\ [][NextDecode]_vars

----------------------------------------------------------------------------
(* wsjtx.rs: wsjtx_thread and wsjtx_rxloop, the loop around rxhandler      *)

\* how many times recv_from returns in a run
MaxDatagrams == 3

\* one datagram for each way decode_hdr returns: 11 bytes; an unknown variant
\* index; a wrong magic number; schema 3; a Clear message; a logged contact
RxDatagrams ==
    { SubSeq(MagicBytes \o SchemaBytes \o BE32(3), 1, 11),
      MagicBytes \o SchemaBytes \o BE32(16),
      <<173, 188, 203, 219>> \o SchemaBytes \o BE32(3),
      MagicBytes \o <<0, 0, 0, 3>> \o BE32(3),
      MagicBytes \o SchemaBytes \o BE32(3),
      MagicBytes \o SchemaBytes \o BE32(12) \o EncStr(<<87>>)
          \o EncStr(<<60, 69, 79, 82, 62>>) }

\* a loop that an Err of decode_hdr ends
after_rxhandler_propagating(res) == IF res = "Ok" THEN "recv" ELSE "exit"

\* rxhandler: Ok(_) => (), Err(e) => println!; the loop goes round
after_rxhandler(res) == "recv"

\* wsjtx_thread: UdpSocket::bind; Ok calls wsjtx_rxloop, Err ends the task
RxBind ==
    /\ wpc = "idle"
    /\ \E ok \in BOOLEAN : wpc' = IF ok THEN "recv" ELSE "nosocket"
    /\ UNCHANGED <<rigFreq, rigMode, handlerVars, buf, steps, decoded, uploads,
                   wres, rxVars, rigPower, held, pollVars>>

\* socket.recv_from(&mut buf) returns Ok((amt, src)): rxhandler is called
\* with the bytes received, and calls decode_hdr
RxRecv ==
    /\ wpc = "recv"
    /\ Len(rxhist) + rxerrs < MaxDatagrams
    /\ \E d \in RxDatagrams : buf' = d
    /\ steps' = <<>>
    /\ decoded' = NoData
    /\ wres' = NoWres
    /\ wpc' = "decode_hdr"
    /\ UNCHANGED <<rigFreq, rigMode, handlerVars, uploads, rxVars, rigPower,
                   held, pollVars>>

\* socket.recv_from(&mut buf) returns Err(e): println!, then thread::sleep
RxRecvErr ==
    /\ wpc = "recv"
    /\ Len(rxhist) + rxerrs < MaxDatagrams
    /\ rxerrs' = rxerrs + 1
    /\ wpc' = "sleep"
    /\ UNCHANGED <<rigFreq, rigMode, handlerVars, buf, steps, decoded, uploads,
                   wres, rxhist, rigPower, held, pollVars>>

\* thread::sleep(Duration::from_secs(err_timeout)) is over
RxSleep ==
    /\ wpc = "sleep"
    /\ wpc' = "recv"
    /\ UNCHANGED <<rigFreq, rigMode, handlerVars, buf, steps, decoded, uploads,
                   wres, rxVars, rigPower, held, pollVars>>

\* decode_hdr returned to rxhandler, and rxhandler to the loop
RxHandlerReturn ==
    /\ wpc = "ret"
    /\ rxhist' = Append(rxhist, [buf |-> buf, res |-> wres, data |-> decoded,
                                 steps |-> steps])
    /\ wpc' = after_rxhandler(wres)
    /\ UNCHANGED <<rigFreq, rigMode, handlerVars, buf, steps, decoded, uploads,
                   wres, rxerrs, rigPower, held, pollVars>>

NextRx ==
    \/ RxBind
    \/ RxRecv
    \/ RxRecvErr
    \/ RxSleep
    \/ DecodeHdr
    \/ UploadQso
    \/ RxHandlerReturn

SpecRx == InitDecode /\ [][NextRx]_vars

\* the steps of the loop that are the loop's own take place: the sleep ends,
\* decode_hdr and rxhandler return; an upload is the server's to answer
SpecRxFair ==
    SpecRx /\ WF_vars(RxSleep) /\ WF_vars(DecodeHdr) /\ WF_vars(RxHandlerReturn)

----------------------------------------------------------------------------
(* Properties of is_ft8 and of the translation tables (SpecTranslate)      *)

\* f lies in one of the ten half-open windows [centre - 2000, centre + 3000)
InWindow(f) == \E c \in BandCentres : c - 2000 <= f /\ f < c + 3000

Translated == ret.fn = "translate"

C5_WindowOverridesMode ==
    (Translated /\ InWindow(arg.freq)) =>
        /\ ret.byflag[FALSE] = "D_USB"
        /\ ret.byflag[TRUE] = "DATA_U"
        /\ ModeToString(ret.byflag[FALSE]) = "D-USB"
        /\ ModeToString(ret.byflag[TRUE]) = "DATA-U"

\* an explicit lsb request at the upper end of the 6 m window was translated
C5_Witness ==
    /\ Translated
    /\ arg.freq = 50313000 + 2999
    /\ arg.mode = "LSB"
    /\ ret.byflag[TRUE] = "DATA_U"
    /\ ret.byflag[FALSE] = "D_USB"

\* C6: outside all windows Phone translates to LSB below 10,000,000 Hz and
\* to USB at or above it, whatever the yaesu flag.
C6_PhoneSidebandByFrequency ==
    (Translated /\ arg.mode = "Phone" /\ ~InWindow(arg.freq)) =>
        \A y \in BOOLEAN :
            ret.byflag[y] = IF arg.freq < 10000000 THEN "LSB" ELSE "USB"

\* Phone at exactly 10 MHz was translated, to USB under both flags
C6_Witness ==
    /\ Translated
    /\ arg.mode = "Phone"
    /\ arg.freq = 10000000
    /\ ret.byflag[TRUE] = "USB"
    /\ ret.byflag[FALSE] = "USB"

\* C7: outside all windows the generic table does not look at the frequency
\* for CW, LSB, USB, Digital and RTTY: CW gives CW, LSB gives LSB, USB gives
\* USB (below 10 MHz too), Digital and RTTY give RTTY.
C7_ExplicitModesIgnoreFrequency ==
    (Translated /\ ~InWindow(arg.freq)) =>
        /\ arg.mode = "Cw"   => ret.generic = "CW"
        /\ arg.mode = "LSB"  => ret.generic = "LSB"
        /\ arg.mode = "USB"  => ret.generic = "USB"
        /\ arg.mode = "Digi" => ret.generic = "RTTY"
        /\ arg.mode = "Rtty" => ret.generic = "RTTY"

\* an explicit usb request on 40 m, below 10 MHz, was translated to USB
C7_Witness ==
    Translated /\ arg.mode = "USB" /\ arg.freq = 7100000 /\ ret.generic = "USB"

\* the relabelling of the generic table's modes into the yaesu table's
YaesuRelabel(m) ==
    CASE m = "CW"    -> "CW_U"
      [] m = "RTTY"  -> "RTTY_U"
      [] m = "D_USB" -> "DATA_U"
      [] m = "LSB"   -> "LSB"
      [] m = "USB"   -> "USB"
      [] OTHER       -> "none"

\* C8: for every frequency and coarse mode the yaesu translation is the
\* generic translation relabelled CW -> CW-U, RTTY -> RTTY-U, D-USB -> DATA-U,
\* with LSB and USB unchanged.
C8_YaesuIsRelabelledGeneric ==
    Translated =>
        /\ ret.generic \in {"CW", "RTTY", "D_USB", "LSB", "USB"}
        /\ ret.yaesu = YaesuRelabel(ret.generic)
        /\ ret.byflag[TRUE] = YaesuRelabel(ret.byflag[FALSE])

\* a digi request outside the windows was translated by both tables
C8_Witness ==
    /\ Translated
    /\ arg.mode = "Digi"
    /\ ~InWindow(arg.freq)
    /\ ret.generic = "RTTY"
    /\ ret.yaesu = "RTTY_U"

----------------------------------------------------------------------------
(* Properties of FLRig::set_mode (SpecSetMode)                             *)

\* the labels of the 21 canonical modes
CanonicalLabels == { ModeToString(m) : m \in Modes }

\* set_mode of task h is past its comparison
PastCompare(h) == pc[h] \in {"set_mode", "set_bw", "sm_ret"}

\* the operations of the commands a call has issued, in order
Ops(l) == [i \in 1..Len(l) |-> l[i].op]

\* C1: set_mode(X) called while the rig reports X issues no rig.set_mode and
\* no rig.set_bw and returns Ok, for each of the 21 modes; the mode compared
\* is the one the daemon held when it answered the rig.get_mode of this very
\* call.
C1_SameModeIsSkipped ==
    \A h \in Handlers :
        PastCompare(h) =>
            /\ Len(log[h]) >= 1
            /\ log[h][1].op = "rig.get_mode"
            /\ log[h][1].ok => log[h][1].mode = log[h][1].before
            /\ (log[h][1].ok /\ log[h][1].before = ModeToString(target[h])) =>
                   /\ pc[h] = "sm_ret"
                   /\ smres[h] = ResOk
                   /\ Ops(log[h]) = <<"rig.get_mode">>

\* a later call (the filter was set by an earlier one) asked for DATA-FMN
\* while the rig reported DATA-FMN, and returned Ok
C1_Witness ==
    /\ pc[1] = "sm_ret"
    /\ target[1] = "DATA_FMN"
    /\ rigBw = 500
    /\ Len(log[1]) = 1
    /\ log[1][1].ok
    /\ log[1][1].before = "DATA-FMN"
    /\ smres[1] = ResOk

\* set_mode(CW) has returned, and the rig had reported a known mode other
\* than CW
CwCallReturned(h) ==
    /\ pc[h] = "sm_ret"
    /\ target[h] = "CW"
    /\ Len(log[h]) >= 1
    /\ log[h][1].op = "rig.get_mode"
    /\ log[h][1].ok
    /\ log[h][1].mode \in CanonicalLabels \ {"CW"}

\* C9 as stated: with a CW bandwidth configured, one rig.set_mode(CW)
\* followed at once by one rig.set_bw with the configured value; without,
\* rig.set_mode(CW) alone.
C9_NarrowAlwaysFollowsCw ==
    \A h \in Handlers :
        CwCallReturned(h) =>
            IF cwbandwidth.some
            THEN /\ Ops(log[h]) = <<"rig.get_mode", "rig.set_mode", "rig.set_bw">>
                 /\ log[h][2].mode = "CW"
                 /\ U32Of(log[h][3].num) = cwbandwidth.val
            ELSE /\ Ops(log[h]) = <<"rig.get_mode", "rig.set_mode">>
                 /\ log[h][2].mode = "CW"

\* the i32 that stands for the u32 w: w itself below 2^31, w - 2^32 from there
IsI32Of(n, w) ==
    IF w.hi < 21 \/ (w.hi = 21 /\ w.lo < 47483648)
    THEN n >= 0 /\ U32Of(n) = w
    ELSE n < 0 /\ n = (w.hi - 42) * 100000000 + (w.lo - 94967296)

\* C9 (amended): exactly one rig.set_mode(CW) is issued; if a CW bandwidth is
\* configured and that command succeeded it is followed at once by exactly
\* one rig.set_bw carrying the configured value converted to i32; if no
\* bandwidth is configured or rig.set_mode failed, no rig.set_bw is issued.
C9_NarrowFollowsSuccessfulCw ==
    \A h \in Handlers :
        CwCallReturned(h) =>
            /\ Len(log[h]) >= 2
            /\ log[h][2].op = "rig.set_mode"
            /\ log[h][2].mode = "CW"
            /\ IF cwbandwidth.some /\ log[h][2].ok
               THEN /\ Ops(log[h]) = <<"rig.get_mode", "rig.set_mode", "rig.set_bw">>
                    /\ IsI32Of(log[h][3].num, cwbandwidth.val)
                    /\ smres[h].tag = IF log[h][3].ok THEN "Ok" ELSE "DxrClient"
               ELSE /\ Ops(log[h]) = <<"rig.get_mode", "rig.set_mode">>
                    /\ smres[h].tag = IF log[h][2].ok THEN "Ok" ELSE "DxrClient"

\* with 500 Hz configured and the rig in USB, set_mode(CW) wrote the mode and
\* then the filter
C9_Witness ==
    /\ CwCallReturned(1)
    /\ cwbandwidth = SomeBw(U32Of(500))
    /\ log[1][1].mode = "USB"
    /\ Len(log[1]) = 3
    /\ log[1][3].op = "rig.set_bw"
    /\ log[1][3].ok
    /\ rigMode = "CW"
    /\ rigBw = 500

\* C10: when the rig reports a label outside the 21 canonical ones, set_mode
\* fails with UnknownMode and issues neither rig.set_mode nor rig.set_bw.
C10_UnknownModeFails ==
    \A h \in Handlers :
        ( /\ PastCompare(h)
          /\ Len(log[h]) >= 1
          /\ log[h][1].op = "rig.get_mode"
          /\ log[h][1].ok
          /\ log[h][1].mode \notin CanonicalLabels ) =>
            /\ pc[h] = "sm_ret"
            /\ smres[h].tag = "UnknownMode"
            /\ Ops(log[h]) = <<"rig.get_mode">>

\* set_mode(CW) returned UnknownMode because the rig reported PKT-U, and the
\* rig still reports PKT-U
C10_Witness ==
    /\ pc[1] = "sm_ret"
    /\ target[1] = "CW"
    /\ smres[1].tag = "UnknownMode"
    /\ Len(log[1]) = 1
    /\ log[1][1].mode = "PKT-U"
    /\ rigMode = "PKT-U"

\* the text "mode <label> is unknown" with the label written into it
RawModeMsg(label) ==
    CASE label = "PKT-U" -> "mode PKT-U is unknown"
      [] label = "cw"    -> "mode cw is unknown"
      [] OTHER           -> "mode ? is unknown"

\* C11: the UnknownMode error set_mode returns carries the raw mode string
\* the rig reported, so the error for one unknown label differs from the
\* error set_mode builds for any other unknown label.
C11_UnknownModeCarriesRawMode ==
    \A h \in Handlers :
        (pc[h] = "sm_ret" /\ smres[h].tag = "UnknownMode") =>
            /\ smres[h].msg = RawModeMsg(log[h][1].mode)
            /\ \A other \in UnknownLabels \ {log[h][1].mode} :
                   UnknownModeErr(other) # smres[h]

----------------------------------------------------------------------------
(* Properties of concurrent QSY handlers (Spec)                            *)

ModeOps == { "rig.get_mode", "rig.set_mode", "rig.set_bw" }

\* C2: every rig.set_mode command that reaches the rig carries a mode
\* different from the one the rig holds when the command is applied.
C2_NoRedundantModeWrite ==
    \A h \in Handlers :
        \A i \in 1..Len(log[h]) :
            (log[h][i].op = "rig.set_mode" /\ log[h][i].ok) =>
                log[h][i].mode # log[h][i].before

\* C3: within one QSY the first command is rig.set_vfo, it is issued once,
\* and a mode-related command is issued only after rig.set_vfo succeeded.
C3_FrequencyBeforeMode ==
    \A h \in Handlers :
        /\ \A i \in 1..Len(log[h]) :
               /\ log[h][i].op = "rig.set_vfo" <=> i = 1
               /\ log[h][i].op \in ModeOps => log[h][1].ok
        /\ pc[h] \in {"get_mode", "set_mode", "set_bw", "sm_ret"} =>
               /\ Len(log[h]) >= 1
               /\ log[h][1].op = "rig.set_vfo"
               /\ log[h][1].ok

\* one QSY went through all four commands, and another stopped at a failed
\* rig.set_vfo with nothing after it
C3_Witness ==
    \E h, g \in Handlers :
        /\ Ops(log[h]) = <<"rig.set_vfo", "rig.get_mode", "rig.set_mode", "rig.set_bw">>
        /\ pc[g] = "done"
        /\ Len(log[g]) = 1
        /\ ~log[g][1].ok
        /\ resp[g].status = 500

----------------------------------------------------------------------------
(* Properties of parse_qsy_path (SpecParse)                                *)

Parsed == ret.fn = "parse"

\* how many characters the leading run of slashes of p has
LeadLen(p) == Cardinality({ i \in 1..Len(p) : \A j \in 1..i : p[j] = "/" })

\* the slashes of p that come after its leading run of slashes
SeparatorsAfterLead(p) == { i \in LeadLen(p) + 1 .. Len(p) : p[i] = "/" }

\* the slashes of p that come after its first character: what is left to
\* split on when one leading slash is taken off
SeparatorsAfterFirst(p) == { i \in 2..Len(p) : p[i] = "/" }

WrongShape(res) ==
    /\ ~res.ok
    /\ res.resp.status = 400
    /\ res.resp.msg = "Expected /<freq>/<mode>"

\* C12 (as stated): a path that does not give exactly two segments once a
\* leading slash is taken off and the rest is split on '/' is rejected with
\* 400 'Expected /<freq>/<mode>'.
C12_OneSlashTrimmed ==
    Parsed =>
        (Cardinality(SeparatorsAfterFirst(arg.path)) # 1 => WrongShape(ret.res))

\* C12 (amended): a path is rejected with 400 'Expected /<freq>/<mode>'
\* exactly when it does not give two segments once all its leading slashes
\* are taken off and the rest is split on '/'; the frequency and mode
\* segments play no part in that.
C12_SegmentCountCheckedFirst ==
    Parsed =>
        (WrongShape(ret.res) <=> Cardinality(SeparatorsAfterLead(arg.path)) # 1)

\* '/14030000' and '/14030000/cw/' have been rejected for their shape, and so
\* has a three-segment path whose first two segments are not even valid
C12_Witness ==
    /\ Parsed
    /\ WrongShape(ret.res)
    /\ arg.path \in { <<"/", "1", "4", "0", "3", "0", "0", "0", "0">>,
                       <<"/", "1", "4", "0", "3", "0", "0", "0", "0", "/", "c", "w", "/">>,
                       <<"/", "a", "b", "c", "/", "s", "s", "b", "/", "x">> }

\* the path has the shape <slashes><frequency segment>/<mode segment>
TwoSegments(p) == Cardinality(SeparatorsAfterLead(p)) = 1

Separator(p) == CHOOSE i \in SeparatorsAfterLead(p) : TRUE
FreqSegment(p) == SubSeq(p, LeadLen(p) + 1, Separator(p) - 1)
ModeSegment(p) == SubSeq(p, Separator(p) + 1, Len(p))

DigitChars == <<"0", "1", "2", "3", "4", "5", "6", "7", "8", "9">>
IsDigit(c) == \E i \in 1..10 : DigitChars[i] = c
Ord(c) == CHOOSE i \in 1..10 : DigitChars[i] = c

\* the segment without its plus sign, if it has one
Unsigned(seg) == IF seg # <<>> /\ seg[1] = "+" THEN Tail(seg) ELSE seg

\* a non-negative integer written in decimal digits
IsNumeral(seg) ==
    /\ Unsigned(seg) # <<>>
    /\ \A i \in 1..Len(Unsigned(seg)) : IsDigit(Unsigned(seg)[i])

\* the digits of d from its first non-zero digit on (none for zero)
Significant(d) ==
    SubSeq(d, Cardinality({ i \in 1..Len(d) : \A j \in 1..i : d[j] = "0" }) + 1, Len(d))

\* 4294967295, the largest u32, digit by digit
LargestU32 == <<"4", "2", "9", "4", "9", "6", "7", "2", "9", "5">>

\* the numeral d is at most 4294967295
FitsU32(d) ==
    LET sig == Significant(d)
        Below == \E i \in 1..10 :
                     (\A j \in 1..(i - 1) : sig[j] = LargestU32[j])
                       /\ (Ord(sig[i]) < Ord(LargestU32[i]))
    IN
    (Len(sig) < 10) \/ (Len(sig) = 10 /\ (sig = LargestU32 \/ Below))

RECURSIVE NatDigits(_)
NatDigits(n) == IF n = 0 THEN <<>> ELSE Append(NatDigits(n \div 10), DigitChars[(n % 10) + 1])

Pow10(k) == CASE k = 0 -> 1 [] k = 1 -> 10 [] k = 2 -> 100 [] k = 3 -> 1000
              [] k = 4 -> 10000 [] k = 5 -> 100000 [] k = 6 -> 1000000
              [] k = 7 -> 10000000

\* the frequency of a Qsy written out in decimal, without leading zeros
Decimal(w) ==
    IF w.hi = 0 THEN NatDigits(w.lo)
    ELSE NatDigits(w.hi) \o [i \in 1..8 |-> DigitChars[((w.lo \div Pow10(8 - i)) % 10) + 1]]

FreqRejected(res) ==
    /\ ~res.ok
    /\ res.resp.status = 400
    /\ res.resp.msg = "Frequency must be a positive integer"

\* C13 (as stated): for a two-segment path the frequency segment is refused
\* exactly when it is not a non-negative integer, however large.
C13_NoUpperBound ==
    (Parsed /\ TwoSegments(arg.path)) =>
        (FreqRejected(ret.res) <=> ~IsNumeral(FreqSegment(arg.path)))

\* C13 (amended): for a two-segment path the frequency segment is accepted
\* exactly when it is decimal digits, with at most one plus sign in front,
\* whose value is between 0 and 4294967295; an accepted request carries
\* exactly that value.
C13_FrequencyIsU32 ==
    (Parsed /\ TwoSegments(arg.path)) =>
        LET seg == FreqSegment(arg.path) IN
        /\ FreqRejected(ret.res) <=> ~(IsNumeral(seg) /\ FitsU32(Unsigned(seg)))
        /\ ret.res.ok => Decimal(ret.res.qsy.freq) = Significant(Unsigned(seg))

\* 4294967295 Hz was accepted and the request carries 42 * 10^8 + 94967295
C13_Witness ==
    /\ Parsed
    /\ ret.res.ok
    /\ arg.path = <<"/">> \o LargestU32 \o <<"/", "c", "w">>
    /\ ret.res.qsy.freq = [hi |-> 42, lo |-> 94967295]

\* the six tokens of the logging service with the coarse mode of each
ModeTokens ==
    { <<<<"c", "w">>, "Cw">>,
      <<<<"p", "h", "o", "n", "e">>, "Phone">>,
      <<<<"l", "s", "b">>, "LSB">>,
      <<<<"u", "s", "b">>, "USB">>,
      <<<<"d", "i", "g", "i">>, "Digi">>,
      <<<<"r", "t", "t", "y">>, "Rtty">> }

ModeRejected(res) ==
    /\ ~res.ok
    /\ res.resp.status = 400
    /\ res.resp.msg = "Invalid mode"

----------------------------------------------------------------------------
(* Properties of the responses of qsy (Spec)                               *)

\* handler h has answered the request it accepted
Answered(h) == pc[h] = "done"

RigCommandFailed(h) == \E i \in 1..Len(log[h]) : ~log[h][i].ok

\* rig.get_mode succeeded and returned a label flrig::Mode does not know
UnknownModeReported(h) ==
    \E i \in 1..Len(log[h]) :
        /\ log[h][i].op = "rig.get_mode"
        /\ log[h][i].ok
        /\ log[h][i].mode \notin CanonicalLabels

\* what a response has to be apart from when it is a 500
ResponseShape(h) ==
    LET r == ParsedPaths[req[h]] IN
    /\ resp[h].status \in {200, 400, 500}
    /\ resp[h].status = 400 <=> ~r.ok
    /\ resp[h].status = 400 => resp[h] = r.resp
    /\ resp[h].status = 500 =>
          /\ Len(log[h]) >= 1
          /\ resp[h].msg = IF Len(log[h]) = 1 /\ ~log[h][1].ok
                           THEN "Failed to set frequency"
                           ELSE "Failed to set mode"
    /\ resp[h].status = 200 =>
          /\ resp[h].freq = U32ToInt(r.qsy.freq)
          /\ resp[h].mode =
                ModeToString(qsy_translate(yaesu, U32ToInt(r.qsy.freq), r.qsy.mode))

\* C15 (as stated): every request gets one response: 400 iff the path did
\* not parse, 500 iff a rig command failed, 200 otherwise, with the bodies
\* the claim names.
C15_ServerErrorIffCommandFailed ==
    \A h \in Handlers :
        /\ Answered(h) <=> resp[h] # NoResp
        /\ Answered(h) =>
              /\ ResponseShape(h)
              /\ resp[h].status = 500 <=> RigCommandFailed(h)

\* C15 (amended): every request gets one response, and none before its
\* handler is through: 400 iff the path did not parse, 500 iff a rig command
\* failed or the rig reported a mode outside the canonical labels, 200
\* otherwise; a 500 says 'Failed to set frequency' when rig.set_vfo failed
\* and 'Failed to set mode' otherwise; a 200 reports the requested
\* frequency and the label of the translated mode.
C15_OneResponsePerRequest ==
    \A h \in Handlers :
        /\ Answered(h) <=> resp[h] # NoResp
        /\ Answered(h) =>
              /\ ResponseShape(h)
              /\ resp[h].status = 500 <=>
                    (RigCommandFailed(h) \/ UnknownModeReported(h))

\* one request was answered 500 'Failed to set mode' although every rig
\* command it issued succeeded (the rig reported PKT-U), and another was
\* answered 400 for its path
C15_Witness ==
    \E h, g \in Handlers :
        /\ Answered(h)
        /\ resp[h].status = 500
        /\ resp[h].msg = "Failed to set mode"
        /\ ~RigCommandFailed(h)
        /\ UnknownModeReported(h)
        /\ Answered(g)
        /\ resp[g].status = 400

----------------------------------------------------------------------------
(* Properties of decode_hdr (SpecDecode)                                   *)

\* decode_hdr has returned
Returned == wpc = "ret"

\* C16: decode_hdr fails with DatagramTooShort for every buffer shorter than
\* 12 bytes, without attempting deserialization, and for no buffer of 12
\* bytes or more.
C16_TooShortIffBelowHeader ==
    Returned =>
        /\ wres = "DatagramTooShort" <=> Len(buf) < 12
        /\ Len(buf) < 12 => (steps = <<"length">> /\ decoded = NoData)

\* the first eleven bytes of a schema-2 datagram with the right magic were
\* refused as too short, nothing having been deserialized
C16_Witness ==
    /\ Returned
    /\ buf = MagicBytes \o SchemaBytes \o <<0, 0, 0>>
    /\ wres = "DatagramTooShort"
    /\ steps = <<"length">>

\* C17: for every buffer of at least 12 bytes whose first four bytes are not
\* 0xADBCCBDA, decode_hdr fails with BadMagic, whatever the remaining bytes
\* are (an unrecognised variant index or a cut-off payload included).
C17_BadMagicWhateverFollows ==
    (Returned /\ Len(buf) >= 12 /\ SubSeq(buf, 1, 4) # MagicBytes) =>
        wres = "BadMajick"

\* C18: for every buffer of at least 12 bytes with the right magic and a
\* schema other than 2, decode_hdr fails with UnsupportedSchema and attempts
\* no upload; when magic and schema are both wrong it fails with BadMagic.
C18_BadSchemaWhateverFollows ==
    (Returned /\ Len(buf) >= 12 /\ SubSeq(buf, 5, 8) # SchemaBytes) =>
        /\ uploads = <<>>
        /\ wres = IF SubSeq(buf, 1, 4) = MagicBytes
                  THEN "UnsupportedSchema"
                  ELSE "BadMajick"

\* the datagrams with the right magic, schema 2, variant index t and a
\* payload that follows the variant's struct, bytes after it allowed
WellFormed(t) ==
    { MagicBytes \o SchemaBytes \o BE32(t) \o pl \o [i \in 1..k |-> 0] :
      pl \in WellFormedPayloads(t), k \in 0..MaxTrailing }

\* C19: with the right magic and schema 2, each of the 16 variant indices
\* 0..15 with a well-formed payload decodes without error; for the 15 other
\* than logged-adif (12) nothing is uploaded and nothing else is done than
\* printing the message; an index outside 0..15 is a DeserializationFailure.
C19_SixteenVariantsDecode ==
    /\ \A t \in 0..15 :
          (wpc \in {"upload", "ret"} /\ buf \in WellFormed(t)) =>
              /\ decoded.ok
              /\ decoded.msg = WSJTXMsg[t + 1]
              /\ Returned => wres \in {"Ok", "QSOUploadFailed"}
              /\ t # 12 =>
                    /\ Returned
                    /\ wres = "Ok"
                    /\ uploads = <<>>
                    /\ steps = <<"length", "deserialize", "magic", "schema", "println">>
    /\ ( /\ Returned
         /\ Len(buf) >= 12
         /\ SubSeq(buf, 1, 8) = MagicBytes \o SchemaBytes
         /\ SubSeq(buf, 9, 12) \notin { BE32(t) : t \in 0..15 } ) =>
            wres = "DeserializationFailure"

\* a configure message (index 15) of just the header was decoded and
\* printed, and nothing was uploaded
C19_Witness ==
    /\ Returned
    /\ buf = MagicBytes \o SchemaBytes \o BE32(15)
    /\ wres = "Ok"
    /\ decoded.msg = "Configure"
    /\ uploads = <<>>

\* a logged-adif datagram as the sender encodes it
LoggedAdifDatagram(id, blob) ==
    MagicBytes \o SchemaBytes \o BE32(12) \o EncStr(id) \o EncStr(blob)

\* C20: a logged-adif datagram encoded with magic 0xADBCCBDA, schema 2 and
\* 4-byte big-endian length-prefixed strings decodes to exactly the contact
\* text it was encoded from, and exactly one upload, carrying that text, is
\* attempted.
C20_LoggedAdifRoundTrip ==
    \A id \in TestStrings, blob \in TestBlobs :
        (wpc \in {"upload", "ret"} /\ buf = LoggedAdifDatagram(id, blob)) =>
            /\ decoded.ok
            /\ decoded.msg = "LoggedADIF"
            /\ decoded.strs = <<id, blob>>
            /\ wpc = "upload" => uploads = <<>>
            /\ Returned =>
                  /\ Len(uploads) = 1
                  /\ uploads[1].string = blob
                  /\ wres \in {"Ok", "QSOUploadFailed"}

\* the contact text "<EOR>" logged by instance "W" was decoded and uploaded
C20_Witness ==
    /\ Returned
    /\ buf = LoggedAdifDatagram(<<87>>, <<60, 69, 79, 82, 62>>)
    /\ uploads = <<[type |-> "adif", string |-> <<60, 69, 79, 82, 62>>]>>
    /\ wres = "Ok"

----------------------------------------------------------------------------
(* wavelog.rs wavelog_thread and the poll task of main.rs: one action per   *)
(* await point of the loop and of FLRig::get_radio_data                     *)

\* how many ticks the loop makes in a run
MaxTicks == 2

\* the frequencies and modes the operator sets at the rig's panel
PollFreqs == { 14250000, 7030000 }
PollModes == { "USB", "CW" }

\* the two loops: wavelog.rs, and the task main() spawns
PollTasks == { "wavelog_thread", "main" }

\* tokio::task::spawn(async move { loop { .. } }) of one of the loops named;
\* track: the pairs the daemon holds are recorded from here on
PollSpawn(tasks, track) ==
    /\ ppc = "off"
    /\ pollTask' \in tasks
    /\ ppc' = "get_vfo"
    /\ ticks' = 1
    /\ attempt' = 1
    /\ tickStart' = tick_start
    /\ held' = IF track THEN { <<FreqText(rigFreq), rigMode>> } ELSE held
    /\ UNCHANGED <<rigFreq, rigMode, handlerVars, wsjtxVars, rxVars, rigPower,
                   fetched, calls, radio_data_current, pushes>>

\* a call of get_radio_data fails, the ? returns the ClientError: the Err arm
\* of wavelog_thread logs it; in main the if let Ok(..) does not match and
\* the else if calls get_radio_data again
PollFetchErr ==
    LET again == pollTask = "main" /\ attempt = 1 IN
    /\ ppc' = IF again THEN "get_vfo" ELSE "sleep"
    /\ attempt' = IF again THEN 2 ELSE attempt
    /\ fetched' = IF again THEN NoFetch ELSE [NoFetch EXCEPT !.res = "Err"]
    /\ UNCHANGED <<radio_data_current, pushes>>

\* let vfo = self.get_vfo().await?
PollGetVfo ==
    /\ ppc = "get_vfo"
    /\ calls' = Append(calls, "rig.get_vfo")
    /\ \E ok \in BOOLEAN :
         IF ok
         THEN /\ fetched' = [fetched EXCEPT !.vfo = FreqText(rigFreq)]
              /\ ppc' = "get_mode"
              /\ UNCHANGED <<attempt, radio_data_current, pushes>>
         ELSE PollFetchErr
    /\ UNCHANGED <<rigFreq, rigMode, handlerVars, wsjtxVars, rxVars, rigPower,
                   held, pollTask, ticks, tickStart>>

\* let mode = self.get_mode().await?
PollGetMode ==
    /\ ppc = "get_mode"
    /\ calls' = Append(calls, "rig.get_mode")
    /\ \E ok \in BOOLEAN :
         IF ok
         THEN /\ fetched' = [fetched EXCEPT !.mode = rigMode]
              /\ ppc' = "get_maxpwr"
              /\ UNCHANGED <<attempt, radio_data_current, pushes>>
         ELSE PollFetchErr
    /\ UNCHANGED <<rigFreq, rigMode, handlerVars, wsjtxVars, rxVars, rigPower,
                   held, pollTask, ticks, tickStart>>

\* let maxpwr: u32 = match self.get_maxpwr().await? { .. }
PollGetMaxpwr ==
    /\ ppc = "get_maxpwr"
    /\ calls' = Append(calls, "rig.get_maxpwr")
    /\ \E ok \in BOOLEAN :
         IF ok
         THEN /\ fetched' = [fetched EXCEPT !.maxpwr = clamp(RigMaxPwr)]
              /\ ppc' = "get_power"
              /\ UNCHANGED <<attempt, radio_data_current, pushes>>
         ELSE PollFetchErr
    /\ UNCHANGED <<rigFreq, rigMode, handlerVars, wsjtxVars, rxVars, rigPower,
                   held, pollTask, ticks, tickStart>>

\* let power: u32 = match self.get_power().await? { .. }; get_radio_data
\* returns Ok(radio_data); the loop compares it with radio_data_current,
\* copies the three fields and starts the upload. The second call of main
\* is matched against Err alone, its Ok value is dropped
PollGetPower ==
    /\ ppc = "get_power"
    /\ calls' = Append(calls, "rig.get_power")
    /\ \E ok \in BOOLEAN :
         IF ok
         THEN LET new == RadioData(fetched.vfo, fetched.mode, clamp(rigPower),
                                   fetched.maxpwr)
              IN
              /\ fetched' = [fetched EXCEPT !.res = "Ok", !.data = new]
              /\ attempt' = attempt
              /\ IF attempt = 1 /\ changed(radio_data_current, new)
                 THEN /\ radio_data_current' =
                            snapshot_copied(radio_data_current, new)
                      /\ pushes' = Append(pushes,
                            [ data |-> radio_data_current', tick |-> ticks,
                              result |-> "pending" ])
                      /\ ppc' = "upload"
                 ELSE /\ ppc' = "sleep"
                      /\ UNCHANGED <<radio_data_current, pushes>>
         ELSE PollFetchErr
    /\ UNCHANGED <<rigFreq, rigMode, handlerVars, wsjtxVars, rxVars, rigPower,
                   held, pollTask, ticks, tickStart>>

\* upload_live_radio_data(..).await returns, Ok or Err; let _result drops it
PollUpload ==
    /\ ppc = "upload"
    /\ \E ok \in BOOLEAN :
         pushes' = [pushes EXCEPT ![Len(pushes)].result =
                        IF ok THEN "Ok" ELSE "Err"]
    /\ ppc' = "sleep"
    /\ UNCHANGED <<rigFreq, rigMode, handlerVars, wsjtxVars, rxVars, rigPower,
                   held, pollTask, attempt, ticks, fetched, calls,
                   radio_data_current, tickStart>>

\* tokio::time::sleep(Duration::from_millis(interval)).await is over: the
\* next iteration, the next tick
PollSleep ==
    /\ ppc = "sleep"
    /\ ticks < MaxTicks
    /\ ticks' = ticks + 1
    /\ attempt' = 1
    /\ fetched' = NoFetch
    /\ calls' = <<>>
    /\ tickStart' = tick_start
    /\ ppc' = "get_vfo"
    /\ UNCHANGED <<rigFreq, rigMode, handlerVars, wsjtxVars, rxVars, rigPower,
                   held, pollTask, radio_data_current, pushes>>

\* the operator turns the dial, switches the mode or changes the power
PollPanel ==
    /\ ppc # "off"
    /\ \E f \in PollFreqs, m \in PollModes, p \in RigPowers :
         /\ <<f, m, p>> # <<rigFreq, rigMode, rigPower>>
         /\ rigFreq' = f
         /\ rigMode' = m
         /\ rigPower' = p
         /\ held' = held_with(f, m)
    /\ UNCHANGED <<handlerVars, wsjtxVars, rxVars, pollVars>>

NextPoll ==
    \/ PollSpawn(PollTasks, FALSE)
    \/ PollGetVfo
    \/ PollGetMode
    \/ PollGetMaxpwr
    \/ PollGetPower
    \/ PollUpload
    \/ PollSleep
    \/ PollPanel

SpecPoll == InitDecode /\ [][NextPoll]_vars

\* the steps that are the loop's own, or the daemon's on the same machine,
\* take place: the calls of get_radio_data return and the sleep ends; when
\* the log server answers an upload is the server's affair (the reqwest
\* Client is built without a timeout)
SpecPollFair ==
    /\ SpecPoll
    /\ WF_vars(PollGetVfo \/ PollGetMode \/ PollGetMaxpwr \/ PollGetPower)
    /\ WF_vars(PollSleep)

----------------------------------------------------------------------------
(* The poll loop and the CAT side at work on the one daemon: main() starts  *)
(* wavelog_thread and CAT_thread with clones of the same Arc<FLRig>         *)

InitPollQsy ==
    /\ InitCommon
    /\ cwbandwidth = SomeBw(U32Of(500))
    /\ rigMode = "USB"
    /\ yaesu = FALSE
    /\ arg = NoArg
    /\ ret = NoRet

\* main spawns the poll loop before it starts the CAT server: a request is
\* accepted when the loop runs
QsyAcceptPolled(h) ==
    /\ ppc # "off"
    /\ QsyAccept(h)

NextPollQsy ==
    \/ PollSpawn({"wavelog_thread"}, TRUE)
    \/ PollGetVfo
    \/ PollGetMode
    \/ PollGetMaxpwr
    \/ PollGetPower
    \/ PollUpload
    \/ PollSleep
    \/ QsyAcceptPolled(QsyTask)
    \/ QsySetVfo(QsyTask)
    \/ SetModeGet(QsyTask)
    \/ SetModeWrite(QsyTask)
    \/ SetModeNarrow(QsyTask)
    \/ QsyModeReturn(QsyTask)

SpecPollQsy == InitPollQsy /\ [][NextPollQsy]_vars

\* the same without the record of the pairs held
NextPollCat ==
    \/ PollSpawn({"wavelog_thread"}, FALSE)
    \/ PollGetVfo
    \/ PollGetMode
    \/ PollGetMaxpwr
    \/ PollGetPower
    \/ PollUpload
    \/ PollSleep
    \/ QsyAcceptPolled(QsyTask)
    \/ QsySetVfo(QsyTask)
    \/ SetModeGet(QsyTask)
    \/ SetModeWrite(QsyTask)
    \/ SetModeNarrow(QsyTask)
    \/ QsyModeReturn(QsyTask)

SpecPollCat == InitPollQsy /\ [][NextPollCat]_vars

----------------------------------------------------------------------------
(* The receive loop *)

\* the bytes alone decide how a datagram is decoded: two datagrams of the
\* same bytes give the same data and the same result, the upload's outcome
\* aside
SameDecode(a, b) ==
    /\ a.data = b.data
    /\ a.steps = b.steps
    /\ \/ a.res = b.res
       \/ /\ a.data.msg = "LoggedADIF"
          /\ {a.res, b.res} = {"Ok", "QSOUploadFailed"}

\* C21: no datagram ends the receive loop: after a decode error (too short,
\* deserialization failure, bad magic, unsupported schema) or a failed
\* contact upload, and after a socket receive error, the loop comes back to
\* recv_from, and what came before does not change how a datagram is decoded.
C21_ReceiveLoopGoesOn ==
    /\ [](wpc \in {"idle", "nosocket", "recv", "sleep", "decode_hdr", "upload",
                   "ret"})
    /\ [](\A i, j \in 1..Len(rxhist) :
             rxhist[i].buf = rxhist[j].buf => SameDecode(rxhist[i], rxhist[j]))
    /\ (wpc = "ret" /\ wres # "Ok") ~> (wpc = "recv")
    /\ (wpc = "sleep") ~> (wpc = "recv")

\* after a receive error, a datagram with a wrong magic number, a failed
\* upload and a Clear message, the loop is at recv_from again
C21_Witness ==
    /\ wpc = "recv"
    /\ rxerrs = 1
    /\ Len(rxhist) = MaxDatagrams - 1
    /\ rxhist[1].res \in {"BadMajick", "QSOUploadFailed"}
    /\ rxhist[Len(rxhist)].res = "Ok"

----------------------------------------------------------------------------
(* The poll loop *)

\* the three strings of two snapshots, compared one by one
SameStrings(a, b) ==
    a.frequency = b.frequency /\ a.mode = b.mode /\ a.power = b.power

\* this step is the return of the tick's get_radio_data with Ok
FetchSucceeds == attempt = 1 /\ fetched.res = "none" /\ fetched'.res = "Ok"

\* C22: a tick whose fetch succeeds attempts exactly one push when the
\* fetched frequency, mode or power string differs from the previous
\* snapshot's, and none when the three are equal; nothing else attempts a
\* push, so that no tick has two.
C22_PushIffChanged ==
    /\ [][ FetchSucceeds =>
             IF SameStrings(radio_data_current, fetched'.data)
             THEN pushes' = pushes
             ELSE /\ Len(pushes') = Len(pushes) + 1
                  /\ SameStrings(pushes'[Len(pushes')].data, fetched'.data)
                  /\ pushes'[Len(pushes')].tick = ticks ]_vars
    /\ [][ Len(pushes') # Len(pushes) => FetchSucceeds ]_vars
    /\ [](\A i, j \in 1..Len(pushes) : pushes[i].tick = pushes[j].tick => i = j)

\* the second tick pushed because the mode alone had changed
C22_Witness ==
    /\ Len(pushes) = 2
    /\ pushes[2].tick = 2
    /\ pushes[1].data.frequency = pushes[2].data.frequency
    /\ pushes[1].data.power = pushes[2].data.power
    /\ pushes[1].data.mode # pushes[2].data.mode

C24_FailedFetchEndsTheTick ==
    /\ \A i, j \in 1..Len(calls) : calls[i] = calls[j] => i = j
    /\ fetched.res = "Err" => \A i \in 1..Len(pushes) : pushes[i].tick # ticks

\* C25: the loop does not wait on a push: from the moment a push is under
\* way the loop reaches its interval wait, whatever becomes of the push.
C25_LoopGoesOnWhateverThePush == (ppc = "upload") ~> (ppc = "sleep")

----------------------------------------------------------------------------
(* QSY requests and the rig *)

\* C26: for a QSY with coarse mode cw that the translation leaves a CW mode
\* (CW, or CW-U under the Yaesu flag), with a CW bandwidth configured, a
\* rig.set_mode that succeeded is followed at once by rig.set_bw.
C26_NarrowFollowsCwUnderBothFlags ==
    \A h \in Handlers :
        \A i \in 1..Len(log[h]) :
            ( /\ qsyinfo[h].mode = "Cw"
              /\ target[h] \in {"CW", "CW_U"}
              /\ cwbandwidth.some
              /\ log[h][i].op = "rig.set_mode"
              /\ log[h][i].ok ) =>
                IF i < Len(log[h])
                THEN log[h][i + 1].op = "rig.set_bw"
                ELSE pc[h] = "set_bw"

\* C27: a request the parser rejects is answered 400 at once and sends the
\* daemon no command of any kind.
C27_RejectedRequestCommandsNothing ==
    \A h \in Handlers :
        /\ (pc[h] # "idle" /\ ~ParsedPaths[req[h]].ok) => resp[h].status = 400
        /\ resp[h].status = 400 => (pc[h] = "done" /\ log[h] = <<>>)

\* the only request made was rejected, and the rig is as it was
C27_Witness ==
    /\ accepted = 1
    /\ pc[1] = "done"
    /\ resp[1].status = 400
    /\ log[1] = <<>>
    /\ rigFreq = 14250000

\* the handlers that have answered 200
Succeeded == { h \in Handlers : pc[h] = "done" /\ resp[h].status = 200 }

\* every request made so far went to a handler of its own and was answered 200
AllSucceeded == accepted >= 2 /\ Cardinality(Succeeded) = accepted

\* C28 (as stated): when concurrent QSY requests have all returned success,
\* the rig holds the frequency and the mode of one and the same request.
C28_OneRequestWins ==
    AllSucceeded =>
        \E h \in Succeeded :
            /\ rigFreq = U32ToInt(qsyinfo[h].freq)
            /\ rigMode = ModeToString(target[h])

\* C28 (amended): when concurrent QSY requests have all returned success,
\* the rig holds the frequency of one of them and the mode of one of them,
\* which need not be the same request.
C28_EachFromSomeRequest ==
    AllSucceeded =>
        /\ \E h \in Succeeded : rigFreq = U32ToInt(qsyinfo[h].freq)
        /\ \E h \in Succeeded : rigMode = ModeToString(target[h])

\* two requests succeeded and the rig holds the frequency of the second
\* with the mode of the first, a pair neither asked for
C28_Witness ==
    /\ AllSucceeded
    /\ Succeeded = {1, 2}
    /\ rigFreq = U32ToInt(qsyinfo[2].freq)
    /\ rigFreq # U32ToInt(qsyinfo[1].freq)
    /\ rigMode = ModeToString(target[1])
    /\ rigMode # ModeToString(target[2])

\* the mode step of the request of h has failed
ModeStepFailed(h) ==
    pc[h] = "done" /\ smres[h].tag \in {"DxrClient", "UnknownMode"}

\* C30: when the mode step of a QSY fails (the mode fetch fails, the rig
\* reports an unknown mode, or the mode or filter write fails) the answer is
\* a 500 naming the mode step, and the frequency written before stays: the
\* handler sends no frequency command after the first.
C30_FrequencyStaysAfterModeFailure ==
    \A h \in Handlers :
        /\ ModeStepFailed(h) <=>
              (resp[h].status = 500 /\ resp[h].msg = "Failed to set mode")
        /\ ModeStepFailed(h) =>
              /\ Len(log[h]) >= 2
              /\ log[h][1].op = "rig.set_vfo"
              /\ log[h][1].num = U32ToInt(qsyinfo[h].freq)
              /\ log[h][1].ok
              /\ \A i \in 2..Len(log[h]) : log[h][i].op \in ModeOps
              /\ ~log[h][Len(log[h])].ok \/ smres[h].tag = "UnknownMode"
              /\ accepted = 1 => rigFreq = U32ToInt(qsyinfo[h].freq)

\* the write of the mode failed after the frequency 7030000 was set: the
\* rig is left on that frequency in its old mode
C30_Witness ==
    /\ accepted = 1
    /\ ModeStepFailed(1)
    /\ Len(log[1]) = 3
    /\ log[1][3].op = "rig.set_mode"
    /\ ~log[1][3].ok
    /\ rigFreq = 7030000
    /\ rigMode = "USB"

----------------------------------------------------------------------------
(* The poll loop beside a QSY *)

\* C29: every snapshot the poll loop pushes carries a frequency and a mode
\* that the rig held together at one instant.
C29_PushedPairWasHeld ==
    \A i \in 1..Len(pushes) :
        <<pushes[i].data.frequency, pushes[i].data.mode>> \in held

----------------------------------------------------------------------------
(* Mode labels *)

\* the 21 labels as the daemon spells them
TheLabels ==
    { "LSB", "USB", "AM", "AM-N", "CW", "CW-U", "RTTY", "RTTY-U", "FM", "FM-N",
      "CW-R", "CW-L", "RTTY-R", "RTTY-L", "D-LSB", "DATA-L", "D-USB", "DATA-U",
      "DATA-FM", "DATA-FMN", "PSK" }

\* C32: the 21 modes have 21 pairwise distinct labels, the label written for
\* a mode parses to that mode, and a string that is none of the 21 labels
\* does not parse.
C32_LabelsRoundTrip ==
    /\ Cardinality(Modes) = 21
    /\ Cardinality(TheLabels) = 21
    /\ ret.fn = "to_string" =>
          /\ ret.label \in TheLabels
          /\ arg.mode # arg.other => ret.label # ret.other
          /\ ret.back = [ok |-> TRUE, mode |-> arg.mode]
    /\ ret.fn = "from_str" =>
          /\ ret.parsed.ok <=> arg.str \in TheLabels
          /\ ret.parsed.ok => ret.parsed.mode \in Modes

\* DATA-FMN was written for DATA_FMN, distinct from the label of DATA_FM,
\* and parsed back to DATA_FMN
C32_Witness ==
    /\ ret.fn = "to_string"
    /\ arg.mode = "DATA_FMN"
    /\ arg.other = "DATA_FM"
    /\ ret.label = "DATA-FMN"
    /\ ret.other = "DATA-FM"
    /\ ret.back = [ok |-> TRUE, mode |-> "DATA_FMN"]

----------------------------------------------------------------------------
(* A QSY repeated *)

\* the request of h repeats the one before it, which was answered 200
Repeats(h) ==
    /\ h - 1 \in Handlers
    /\ pc[h] # "idle"
    /\ req[h] = req[h - 1]
    /\ resp[h - 1].status = 200

\* C31: a valid request handled again right after it was answered 200, the
\* rig untouched in between and reporting the label written, sends no
\* rig.set_mode and no rig.set_bw, and is answered 200 when its rig.set_vfo
\* and rig.get_mode go through.
C31_RepeatedQsySkipsMode ==
    \A h \in Handlers :
        Repeats(h) =>
            /\ \A i \in 1..Len(log[h]) : log[h][i].op \in {"rig.set_vfo", "rig.get_mode"}
            /\ Len(log[h]) <= 2
            /\ (pc[h] = "done" /\ \A i \in 1..Len(log[h]) : log[h][i].ok) =>
                  resp[h].status = 200 /\ resp[h] = resp[h - 1]

\* /7030000/cw with a CW bandwidth configured: the first handling wrote the
\* mode and the filter, the second one only set the frequency and read the
\* mode, and both were answered 200
C31_Witness ==
    /\ Repeats(2)
    /\ target[2] = "CW"
    /\ Ops(log[1]) = <<"rig.set_vfo", "rig.get_mode", "rig.set_mode", "rig.set_bw">>
    /\ pc[2] = "done"
    /\ Ops(log[2]) = <<"rig.set_vfo", "rig.get_mode">>
    /\ resp[2].status = 200

----------------------------------------------------------------------------
(* The method of a request *)

\* what qsy makes of a GET of the path of the request of h
AsGet(h) == parse_request([method |-> "GET", path |-> req[h]])

\* C34: whatever the method of a request, OPTIONS included, the handler
\* does with it what it does with a GET of the same path: the same 400 and
\* no command when the path does not parse; otherwise the same frequency
\* and mode commands and the same response.
C34_MethodIsNotInspected ==
    \A h \in Handlers :
        pc[h] # "idle" =>
            /\ method[h] \in Methods
            /\ qsyinfo[h] = AsGet(h).qsy
            /\ ~AsGet(h).ok => (resp[h] = AsGet(h).resp /\ log[h] = <<>>)
            /\ AsGet(h).ok =>
                  LET freq == U32ToInt(AsGet(h).qsy.freq)
                      mode == qsy_translate(yaesu, freq, AsGet(h).qsy.mode)
                  IN
                  /\ target[h] = mode
                  /\ pc[h] # "set_vfo" =>
                        (log[h][1].op = "rig.set_vfo" /\ log[h][1].num = freq)
                  /\ \A i \in 1..Len(log[h]) :
                        log[h][i].op = "rig.set_mode" =>
                            log[h][i].mode = ModeToString(mode)
                  /\ pc[h] = "done" =>
                        /\ resp[h].status = 200 <=> smres[h].tag = "Ok"
                        /\ resp[h].status = 200 =>
                              /\ resp[h].freq = freq
                              /\ resp[h].mode = ModeToString(mode)
                        /\ resp[h].status # 200 =>
                              /\ resp[h].status = 500
                              /\ \/ UnknownModeReported(h)
                                 \/ RigCommandFailed(h)

\* an OPTIONS request for /7030000/cw has set the frequency and written
\* the mode, and was answered 200
C34_Witness ==
    /\ method[QsyTask] = "OPTIONS"
    /\ pc[QsyTask] = "done"
    /\ resp[QsyTask].status = 200
    /\ resp[QsyTask].freq = 7030000
    /\ rigFreq = 7030000
    /\ \E i \in 1..Len(log[QsyTask]) :
          log[QsyTask][i].op = "rig.set_mode" /\ log[QsyTask][i].ok

----------------------------------------------------------------------------
(* A QSY and the tick after it *)

\* no handler was at work when the tick began, none is now, and no request
\* came in between: the rig is as the tick found it
QuietTick ==
    /\ tickStart.quiet
    /\ tickStart.accepted = accepted
    /\ \A h \in Handlers : pc[h] \in {"idle", "done"}

\* a request has been handled, and the rig's frequency or mode is not the
\* one of the previous snapshot
QsyLeftANewState ==
    /\ \E h \in Handlers : pc[h] = "done"
    /\ <<FreqText(rigFreq), rigMode>> #
           <<radio_data_current.frequency, radio_data_current.mode>>

\* C33: no step of a QSY handler pushes or touches the previous snapshot;
\* a tick that begins after a QSY has left the rig in a state other than
\* the previous snapshot's, and whose fetch succeeds with the rig untouched,
\* attempts one push, which carries the rig's frequency and mode.
C33_PollLoopReportsTheQsy ==
    /\ [][ (pc' # pc \/ log' # log) =>
             (pushes' = pushes /\ radio_data_current' = radio_data_current) ]_vars
    /\ [][ (FetchSucceeds /\ QuietTick /\ QsyLeftANewState) =>
             /\ Len(pushes') = Len(pushes) + 1
             /\ pushes'[Len(pushes')].tick = ticks
             /\ pushes'[Len(pushes')].data.frequency = FreqText(rigFreq)
             /\ pushes'[Len(pushes')].data.mode = rigMode ]_vars
    /\ [](\A i, j \in 1..Len(pushes) : pushes[i].tick = pushes[j].tick => i = j)

\* the first tick pushed 14250000 USB, a QSY to 7030000 CW was answered
\* 200 during the wait, and the second tick pushed 7030000 CW
C33_Witness ==
    /\ QuietTick
    /\ accepted = 1
    /\ \E h \in Handlers : pc[h] = "done" /\ resp[h].status = 200
    /\ Len(pushes) = 2
    /\ pushes[1].data.frequency = FreqText(14250000)
    /\ pushes[1].data.mode = "USB"
    /\ pushes[2].tick = 2
    /\ pushes[2].data.frequency = FreqText(7030000)
    /\ pushes[2].data.mode = "CW"

====
